---- MODULE Spec2Model ----
(***************************************************************************)
(* Trip planner: the LangGraph workflow of agents/trip_planner.py, the     *)
(* data aggregation of tools/travel_tools.py, the weather scoring of       *)
(* tools/weather_tool.py and the alternative-suggestion parser of          *)
(* chains/itinerary_chain.py.                                              *)
(*                                                                         *)
(* Conventions                                                             *)
(*  - An optional value (a dict key that may be absent, a nullable field)  *)
(*    is a sequence of length 0 or 1: None == <<>>, Some(v) == <<v>>.      *)
(*  - A text whose characters are inspected by the code (a weather         *)
(*    description) is a sequence of one-character strings.                 *)
(*  - A float score is a fraction [num, den] with den > 0, so that the     *)
(*    mean sum(daily)/len(daily) is exact.                                 *)
(*  - A node returns a partial update; Merge folds it into the state the   *)
(*    way the graph engine does (keys of the schema only, last writer      *)
(*    wins).                                                               *)
(***************************************************************************)
EXTENDS Integers, Sequences, FiniteSets, TLC

(***************************************************************************)
(* Bounds of the model.                                                    *)
(***************************************************************************)
\* Supersteps the graph engine runs before it raises its recursion fault
\* (the engine's default; the program never overrides it).
RecursionLimit == 25
\* longest answer, in lines, of the text generator to a direct call of
\* provide_alternatives
MaxAnswerLines == 4
\* Lines of a text-generator response to the alternatives prompt.
MaxLines == 3

(***************************************************************************)
(* Optional values.                                                        *)
(***************************************************************************)
None == <<>>
Some(v) == <<v>>
IsSome(o) == Len(o) > 0
Get(o) == o[1]

(***************************************************************************)
(* Texts as character sequences: str.lower() and the `in` substring test.  *)
(***************************************************************************)
UpperChars == <<"A","B","C","D","E","F","G","H","I","J","K","L","M",
                "N","O","P","Q","R","S","T","U","V","W","X","Y","Z">>
LowerChars == <<"a","b","c","d","e","f","g","h","i","j","k","l","m",
                "n","o","p","q","r","s","t","u","v","w","x","y","z">>

LowerChar(c) ==
    IF \E i \in 1..26 : UpperChars[i] = c
    THEN LowerChars[CHOOSE i \in 1..26 : UpperChars[i] = c]
    ELSE c

Lower(s) == [i \in 1..Len(s) |-> LowerChar(s[i])]

\* Python's `word in text` for two strings
Contains(text, word) ==
    \E i \in 0..(Len(text) - Len(word)) :
        \A j \in 1..Len(word) : text[i + j] = word[j]

AnyWordIn(text, words) == \E w \in words : Contains(text, w)

W_weather == <<"w","e","a","t","h","e","r">>
W_hotel == <<"h","o","t","e","l">>
W_accommodation == <<"a","c","c","o","m","m","o","d","a","t","i","o","n">>
W_stay == <<"s","t","a","y">>
W_flight == <<"f","l","i","g","h","t">>
W_itinerary == <<"i","t","i","n","e","r","a","r","y">>
W_schedule == <<"s","c","h","e","d","u","l","e">>
W_plan == <<"p","l","a","n">>
W_storm == <<"s","t","o","r","m">>
W_hurricane == <<"h","u","r","r","i","c","a","n","e">>
W_tornado == <<"t","o","r","n","a","d","o">>
W_heavy_rain == <<"h","e","a","v","y"," ","r","a","i","n">>
W_thunderstorm == <<"t","h","u","n","d","e","r","s","t","o","r","m">>
W_rain == <<"r","a","i","n">>
W_shower == <<"s","h","o","w","e","r">>
W_snow == <<"s","n","o","w">>
W_sleet == <<"s","l","e","e","t">>
W_clear == <<"c","l","e","a","r">>
W_sunny == <<"s","u","n","n","y">>
W_cloud == <<"c","l","o","u","d">>
W_fair == <<"f","a","i","r">>
W_overcast == <<"o","v","e","r","c","a","s","t">>
W_drizzle == <<"d","r","i","z","z","l","e">>
W_light_rain == <<"l","i","g","h","t"," ","r","a","i","n">>
W_thunder == <<"t","h","u","n","d","e","r">>
W_ice == <<"i","c","e">>
W_wind == <<"w","i","n","d">>

(***************************************************************************)
(* Scores as fractions.                                                    *)
(***************************************************************************)
Score(n, d) == [num |-> n, den |-> d]
IntScore(n) == Score(n, 1)
\* s >= k, s < k for an integer k
ScoreGE(s, k) == s.num >= k * s.den
ScoreLT(s, k) == s.num < k * s.den
ScoreEq(s, t) == s.num * t.den = t.num * s.den

Max(a, b) == IF a >= b THEN a ELSE b
Min(a, b) == IF a <= b THEN a ELSE b

\* mutant: only the first day is counted
SumSeq_first_day(s) == IF s = <<>> THEN 0 ELSE Head(s)

RECURSIVE SumSeq(_)
SumSeq(s) == IF s = <<>> THEN 0 ELSE Head(s) + SumSeq(Tail(s))

(***************************************************************************)
(* tools/weather_tool.py: scoring                                          *)
(***************************************************************************)
\* WeatherTool._calculate_daily_suitability_score, temperature table
DailyTempAdjustment(temp) ==
    IF temp < 0 \/ temp > 40 THEN -40
    ELSE IF temp < 5 \/ temp > 35 THEN -25
    ELSE IF temp < 10 \/ temp > 30 THEN -15
    ELSE IF 18 <= temp /\ temp <= 28 THEN 10
    ELSE 0

\* mutant: the snow family is tested before the rain family
DailyConditionAdjustment_snow_before_rain(description) ==
    LET desc_lower == Lower(description) IN
    IF AnyWordIn(desc_lower, {W_storm, W_hurricane, W_tornado}) THEN -50
    ELSE IF AnyWordIn(desc_lower, {W_heavy_rain, W_thunderstorm}) THEN -40
    ELSE IF AnyWordIn(desc_lower, {W_snow, W_sleet}) THEN -30
    ELSE IF AnyWordIn(desc_lower, {W_rain, W_shower}) THEN -20
    ELSE IF AnyWordIn(desc_lower, {W_clear, W_sunny}) THEN 15
    ELSE IF Contains(desc_lower, W_cloud) THEN 5
    ELSE 0

\* mutant: the heavy rain / thunderstorm family is tested first
DailyConditionAdjustment_thunder_first(description) ==
    LET desc_lower == Lower(description) IN
    IF AnyWordIn(desc_lower, {W_heavy_rain, W_thunderstorm}) THEN -40
    ELSE IF AnyWordIn(desc_lower, {W_storm, W_hurricane, W_tornado}) THEN -50
    ELSE IF AnyWordIn(desc_lower, {W_rain, W_shower}) THEN -20
    ELSE IF AnyWordIn(desc_lower, {W_snow, W_sleet}) THEN -30
    ELSE IF AnyWordIn(desc_lower, {W_clear, W_sunny}) THEN 15
    ELSE IF Contains(desc_lower, W_cloud) THEN 5
    ELSE 0

\* WeatherTool._calculate_daily_suitability_score, condition table
DailyConditionAdjustment(description) ==
    LET desc_lower == Lower(description) IN
    IF AnyWordIn(desc_lower, {W_storm, W_hurricane, W_tornado}) THEN -50
    ELSE IF AnyWordIn(desc_lower, {W_heavy_rain, W_thunderstorm}) THEN -40
    ELSE IF AnyWordIn(desc_lower, {W_rain, W_shower}) THEN -20
    ELSE IF AnyWordIn(desc_lower, {W_snow, W_sleet}) THEN -30
    ELSE IF AnyWordIn(desc_lower, {W_clear, W_sunny}) THEN 15
    ELSE IF Contains(desc_lower, W_cloud) THEN 5
    ELSE 0

\* WeatherTool._calculate_daily_suitability_score, wind table
DailyWindAdjustment(wind) ==
    IF wind > 25 THEN -20
    ELSE IF wind > 15 THEN -10
    ELSE 0

\* mutant: no upper clamp
calculate_daily_suitability_score_no_min(temp, description, wind, rain_prob) ==
    LET score == 100 + DailyTempAdjustment(temp)
                     + DailyConditionAdjustment(description)
                     + DailyWindAdjustment(wind)
    IN Max(0, score)

\* WeatherTool._calculate_daily_suitability_score
calculate_daily_suitability_score(temp, description, wind, rain_prob) ==
    LET score == 100 + DailyTempAdjustment(temp)
                     + DailyConditionAdjustment(description)
                     + DailyWindAdjustment(wind)
    IN Max(0, Min(100, score))

\* WeatherTool._get_suitability_level
get_suitability_level(score) ==
    IF score >= 80 THEN "Excellent"
    ELSE IF score >= 60 THEN "Good"
    ELSE IF score >= 40 THEN "Fair"
    ELSE IF score >= 20 THEN "Poor"
    ELSE "Very Poor"

\* WeatherTool._get_overall_recommendation (score is a fraction)
get_overall_recommendation(score) ==
    IF ScoreGE(score, 80) THEN "Excellent weather conditions for your trip!"
    ELSE IF ScoreGE(score, 60) THEN "Good weather conditions with minor considerations."
    ELSE IF ScoreGE(score, 40) THEN "Fair weather - some days may require alternative plans."
    ELSE "Poor weather conditions - consider rescheduling or indoor alternatives."

\* WeatherTool._calculate_viability_score, temperature branch
ViabilityTemp(temp) ==
    IF 18 <= temp /\ temp <= 28
    THEN [adj |-> 10, reasons |-> <<"Perfect temperature">>, recs |-> <<>>]
    ELSE IF 15 <= temp /\ temp <= 30
    THEN [adj |-> 5, reasons |-> <<"Good temperature">>, recs |-> <<>>]
    ELSE IF temp < 5 \/ temp > 35
    THEN [adj |-> -40, reasons |-> <<"Extreme temperature">>,
          recs |-> <<"Consider rescheduling due to extreme temperatures">>]
    ELSE IF temp < 10 \/ temp > 32
    THEN [adj |-> -20, reasons |-> <<"Uncomfortable temperature">>, recs |-> <<>>]
    ELSE [adj |-> 0, reasons |-> <<>>, recs |-> <<>>]

\* WeatherTool._calculate_viability_score, condition branch
ViabilityCondition(description) ==
    IF AnyWordIn(description, {W_clear, W_sunny, W_fair})
    THEN [adj |-> 20, reasons |-> <<"Excellent weather conditions">>, recs |-> <<>>]
    ELSE IF AnyWordIn(description, {W_cloud, W_overcast})
    THEN [adj |-> 5, reasons |-> <<"Cloudy but suitable">>, recs |-> <<>>]
    ELSE IF AnyWordIn(description, {W_drizzle, W_light_rain})
    THEN [adj |-> -10, reasons |-> <<"Light rain expected">>,
          recs |-> <<"Carry umbrella or raincoat">>]
    ELSE IF AnyWordIn(description, {W_rain, W_shower})
    THEN [adj |-> -25, reasons |-> <<"Rain expected">>,
          recs |-> <<"Plan indoor activities">>]
    ELSE IF AnyWordIn(description, {W_storm, W_thunder})
    THEN [adj |-> -50, reasons |-> <<"Storm conditions">>,
          recs |-> <<"Consider rescheduling - storm warning">>]
    ELSE IF AnyWordIn(description, {W_snow, W_ice})
    THEN [adj |-> -30, reasons |-> <<"Snow conditions">>,
          recs |-> <<"Check travel advisories">>]
    ELSE [adj |-> 0, reasons |-> <<>>, recs |-> <<>>]

\* WeatherTool._calculate_viability_score, wind branch
ViabilityWind(wind_speed) ==
    IF wind_speed > 20
    THEN [adj |-> -15, reasons |-> <<"High winds">>, recs |-> <<"Secure outdoor items">>]
    ELSE IF wind_speed > 15
    THEN [adj |-> -5, reasons |-> <<"Moderate winds">>, recs |-> <<>>]
    ELSE [adj |-> 0, reasons |-> <<>>, recs |-> <<>>]

\* WeatherTool._calculate_viability_score; current_weather is Some(record) or
\* None for the {"error": ...} dict
calculate_viability_score(current_weather, forecast) ==
    IF ~IsSome(current_weather)
    THEN [score |-> 0, reason |-> <<"Weather data unavailable">>, recommendations |-> <<>>]
    ELSE
        LET cw == Get(current_weather)
            t == ViabilityTemp(cw.temperature)
            c == ViabilityCondition(Lower(cw.description))
            w == ViabilityWind(cw.wind_speed)
            score == 100 + t.adj + c.adj + w.adj
        IN [score |-> Max(0, Min(100, score)),
            reason |-> t.reasons \o c.reasons \o w.reasons,
            recommendations |-> t.recs \o c.recs \o w.recs]

(***************************************************************************)
(* tools/weather_tool.py: forecast bundles                                 *)
(*                                                                         *)
(* The weather provider's answer is the record api:                        *)
(*   geo_ok   the city lookup answered 200                                 *)
(*   fault    a request or the decoding of its answer raised               *)
(*   current  Some(current conditions), None for a non-200 answer          *)
(*   forecast the per-day entries of the 5-day forecast ([] on failure)    *)
(***************************************************************************)
ErrorBundle(msg) ==
    [error |-> Some(msg), city |-> "", current_weather |-> None,
     forecast |-> <<>>, weather_analysis |-> None, viability_score |-> None,
     viability_reason |-> <<>>, recommendations |-> <<>>,
     extended_analysis |-> None]

\* WeatherTool.analyze_weather_conditions; weather_data has the keys city,
\* current_weather, forecast and possibly viability_score
analyze_weather_conditions(weather_data) ==
    LET current == Get(weather_data.current_weather)
        temp == current.temperature
        viability_score == IF IsSome(weather_data.viability_score)
                           THEN Get(weather_data.viability_score)
                           ELSE IntScore(50)
        level == IF ScoreGE(viability_score, 80) THEN "Excellent conditions for travel! "
                 ELSE IF ScoreGE(viability_score, 60) THEN "Good conditions with minor considerations. "
                 ELSE IF ScoreGE(viability_score, 40) THEN "Fair conditions - some adjustments needed. "
                 ELSE "Challenging conditions - consider alternatives. "
        heat == IF temp > 30 THEN <<"Hot weather - stay hydrated and seek shade. ">>
                ELSE IF temp < 10 THEN <<"Cold weather - pack warm clothing. ">>
                ELSE <<>>
        desc_lower == Lower(current.description)
        rain == IF Contains(desc_lower, W_rain)
                THEN <<"Rain expected - pack rain gear. ">> ELSE <<>>
        windy == IF Contains(desc_lower, W_wind) \/ current.wind_speed > 15
                 THEN <<"Windy conditions expected. ">> ELSE <<>>
    IN [available |-> TRUE,
        quoted_score |-> Some(viability_score),
        remarks |-> <<level>> \o heat \o rain \o windy,
        appended |-> <<>>]

\* the default text 'Weather information not available'
NoWeatherAnalysis ==
    [available |-> FALSE, quoted_score |-> None, remarks |-> <<>>, appended |-> <<>>]

\* WeatherTool.get_weather_forecast
get_weather_forecast(city, api) ==
    IF ~api.geo_ok THEN ErrorBundle("Could not find weather data")
    ELSE IF api.fault \/ ~IsSome(api.current) THEN ErrorBundle("Weather API error")
    ELSE
        LET weather_analysis == analyze_weather_conditions(
                [city |-> city, current_weather |-> api.current,
                 forecast |-> api.forecast, viability_score |-> None])
            viability == calculate_viability_score(api.current, api.forecast)
        IN [error |-> None, city |-> city, current_weather |-> api.current,
            forecast |-> api.forecast,
            weather_analysis |-> Some(weather_analysis),
            viability_score |-> Some(IntScore(viability.score)),
            viability_reason |-> viability.reason,
            recommendations |-> viability.recommendations,
            extended_analysis |-> None]

\* WeatherTool._get_daily_recommendations
get_daily_recommendations(temp, description, rain_prob) ==
    LET desc_lower == Lower(description)
        byTemp == IF temp > 30
                  THEN <<"Stay hydrated", "Wear light clothing", "Seek shade during peak hours">>
                  ELSE IF temp < 10
                  THEN <<"Warm layers needed", "Limit outdoor exposure", "Hot beverages recommended">>
                  ELSE <<>>
        byDesc == IF AnyWordIn(desc_lower, {W_rain, W_drizzle})
                  THEN <<"Carry umbrella", "Waterproof footwear", "Have indoor backup plans">>
                  ELSE IF AnyWordIn(desc_lower, {W_storm, W_thunder})
                  THEN <<"Avoid outdoor activities", "Seek shelter if needed", "Check weather alerts">>
                  ELSE IF Contains(desc_lower, W_clear) \/ Contains(desc_lower, W_sunny)
                  THEN <<"Perfect for outdoor activities", "Sunscreen recommended", "Great for photography">>
                  ELSE <<>>
        recommendations == byTemp \o byDesc
    IN IF recommendations # <<>> THEN recommendations
       ELSE <<"Generally good conditions for activities">>

\* one iteration of the day loop of get_extended_weather_forecast
\* (day counts from 0; a date is its day number, 0 for an unparseable text)
DailyForecast(day, start_dt, current_weather, forecast_data) ==
    LET src == IF day < Len(forecast_data) /\ forecast_data # <<>>
               THEN forecast_data[day + 1] ELSE current_weather
        daily_score == calculate_daily_suitability_score(
                           src.temperature, src.description, src.wind_speed, 0)
    IN [date |-> start_dt + day,
        temperature |-> src.temperature,
        description |-> src.description,
        wind_speed |-> src.wind_speed,
        suitability_score |-> daily_score,
        suitability_level |-> get_suitability_level(daily_score),
        recommendations |-> get_daily_recommendations(src.temperature, src.description, 0)]

\* mutant: the single-point score of the bundle is not overwritten
extend_forecast_keeps_basic_score(basic_forecast, start_date, end_date) ==
    IF IsSome(basic_forecast.error) THEN basic_forecast
    ELSE IF start_date = 0 \/ end_date = 0      \* strptime raises ValueError
    THEN ErrorBundle("Extended weather forecast error")
    ELSE
        LET duration == (end_date - start_date) + 1
            current_weather == Get(basic_forecast.current_weather)
            forecast_data == basic_forecast.forecast
            daily_forecasts == [d \in 1..Max(duration, 0) |->
                DailyForecast(d - 1, start_date, current_weather, forecast_data)]
            daily_scores == [d \in 1..Len(daily_forecasts) |->
                daily_forecasts[d].suitability_score]
            overall_score == IF daily_scores # <<>>
                             THEN Score(SumSeq(daily_scores), Len(daily_scores))
                             ELSE Get(basic_forecast.viability_score)
        IN [basic_forecast EXCEPT
              !.extended_analysis = Some(
                  [daily_forecasts |-> daily_forecasts,
                   trip_duration |-> duration,
                   overall_trip_score |-> overall_score,
                   overall_recommendation |-> get_overall_recommendation(overall_score)])]

\* WeatherTool.get_extended_weather_forecast, after its call of
\* get_weather_forecast has given basic_forecast
extend_forecast(basic_forecast, start_date, end_date) ==
    IF IsSome(basic_forecast.error) THEN basic_forecast
    ELSE IF start_date = 0 \/ end_date = 0      \* strptime raises ValueError
    THEN ErrorBundle("Extended weather forecast error")
    ELSE
        LET duration == (end_date - start_date) + 1
            current_weather == Get(basic_forecast.current_weather)
            forecast_data == basic_forecast.forecast
            daily_forecasts == [d \in 1..Max(duration, 0) |->
                DailyForecast(d - 1, start_date, current_weather, forecast_data)]
            daily_scores == [d \in 1..Len(daily_forecasts) |->
                daily_forecasts[d].suitability_score]
            overall_score == IF daily_scores # <<>>
                             THEN Score(SumSeq(daily_scores), Len(daily_scores))
                             ELSE Get(basic_forecast.viability_score)
        IN [basic_forecast EXCEPT
              !.viability_score = Some(overall_score),
              !.extended_analysis = Some(
                  [daily_forecasts |-> daily_forecasts,
                   trip_duration |-> duration,
                   overall_trip_score |-> overall_score,
                   overall_recommendation |-> get_overall_recommendation(overall_score)])]

\* WeatherTool.get_extended_weather_forecast
get_extended_weather_forecast(city, start_date, end_date, api) ==
    extend_forecast(get_weather_forecast(city, api), start_date, end_date)

\* mutant: the single-point score is preferred to the trip score
get_consistent_weather_score_basic_first(weather_data) ==
    IF IsSome(weather_data.error)
    THEN [score |-> IntScore(0), level |-> "Unknown",
          recommendation |-> <<"Weather data unavailable">>]
    ELSE [score |-> IF IsSome(weather_data.viability_score)
                    THEN Get(weather_data.viability_score)
                    ELSE IF IsSome(weather_data.extended_analysis)
                    THEN Get(weather_data.extended_analysis).overall_trip_score
                    ELSE IntScore(50),
          level |-> "", recommendation |-> weather_data.viability_reason]

\* WeatherTool.get_consistent_weather_score
get_consistent_weather_score(weather_data) ==
    IF IsSome(weather_data.error)
    THEN [score |-> IntScore(0), level |-> "Unknown",
          recommendation |-> <<"Weather data unavailable">>]
    ELSE
        LET useExtended == IsSome(weather_data.extended_analysis)
            score == IF useExtended
                     THEN Get(weather_data.extended_analysis).overall_trip_score
                     ELSE IF IsSome(weather_data.viability_score)
                     THEN Get(weather_data.viability_score)
                     ELSE IntScore(50)
        IN [score |-> score,
            level |-> IF ScoreGE(score, 80) THEN "Excellent"
                      ELSE IF ScoreGE(score, 60) THEN "Good"
                      ELSE IF ScoreGE(score, 40) THEN "Fair"
                      ELSE IF ScoreGE(score, 20) THEN "Poor"
                      ELSE "Very Poor",
            recommendation |-> IF useExtended
                               THEN <<Get(weather_data.extended_analysis).overall_recommendation>>
                               ELSE weather_data.viability_reason]

(***************************************************************************)
(* utils/helpers.py                                                        *)
(***************************************************************************)
\* format_itinerary_display, the weather part of the text: display_score is
\* the number of the line 'Overall Weather Score: N/100', None when the
\* line is not written.  itinerary_data has the keys itinerary and
\* weather_data (None: no such key, or an empty dict).
format_itinerary_display(itinerary_data) ==
    IF ~IsSome(itinerary_data.itinerary) \/ Get(itinerary_data.itinerary).length = 0
    THEN [generated |-> FALSE, display_score |-> None]
    ELSE IF ~IsSome(itinerary_data.weather_data)
            \/ IsSome(Get(itinerary_data.weather_data).error)
    THEN [generated |-> TRUE, display_score |-> None]
    ELSE
        LET weather_data == Get(itinerary_data.weather_data)
        IN [generated |-> TRUE,
            display_score |-> Some(
                IF IsSome(weather_data.extended_analysis)
                THEN Get(weather_data.extended_analysis).overall_trip_score
                ELSE IF IsSome(weather_data.viability_score)
                THEN Get(weather_data.viability_score)
                ELSE IntScore(50))]

(***************************************************************************)
(* tools/travel_tools.py                                                   *)
(***************************************************************************)
\* mutant: a trip counts as viable from 50 on
check_weather_viability_viable_from_50(weather_data) ==
    IF IsSome(weather_data) /\ IsSome(Get(weather_data).error)
    THEN [viable |-> FALSE, score |-> IntScore(0),
          reason |-> <<"Weather data unavailable">>,
          warnings |-> <<"Cannot verify weather conditions">>,
          recommendations |-> <<"Check weather manually">>]
    ELSE
        LET wd == IF IsSome(weather_data) THEN Get(weather_data) ELSE ErrorBundle("")
            useExtended == IsSome(weather_data) /\ IsSome(wd.extended_analysis)
            trip_score == IF useExtended THEN Get(wd.extended_analysis).overall_trip_score
                          ELSE IF IsSome(weather_data) /\ IsSome(wd.viability_score)
                          THEN Get(wd.viability_score)
                          ELSE IntScore(50)
            recommendation == IF useExtended
                              THEN <<Get(wd.extended_analysis).overall_recommendation>>
                              ELSE wd.viability_reason
            warnings == IF ScoreLT(trip_score, 30) THEN <<"Poor weather conditions expected">>
                        ELSE IF ScoreLT(trip_score, 50) THEN <<"Moderate weather conditions">>
                        ELSE <<>>
        IN [viable |-> ScoreGE(trip_score, 50),
            score |-> trip_score,
            reason |-> recommendation,
            warnings |-> warnings,
            recommendations |-> wd.recommendations]

\* mutant: the error marker is ignored when there is an extended analysis
check_weather_viability_error_without_analysis(weather_data) ==
    IF /\ IsSome(weather_data)
       /\ IsSome(Get(weather_data).error)
       /\ ~IsSome(Get(weather_data).extended_analysis)
    THEN [viable |-> FALSE, score |-> IntScore(0),
          reason |-> <<"Weather data unavailable">>,
          warnings |-> <<"Cannot verify weather conditions">>,
          recommendations |-> <<"Check weather manually">>]
    ELSE
        LET wd == IF IsSome(weather_data) THEN Get(weather_data) ELSE ErrorBundle("")
            useExtended == IsSome(weather_data) /\ IsSome(wd.extended_analysis)
            trip_score == IF useExtended THEN Get(wd.extended_analysis).overall_trip_score
                          ELSE IF IsSome(weather_data) /\ IsSome(wd.viability_score)
                          THEN Get(wd.viability_score)
                          ELSE IntScore(50)
            recommendation == IF useExtended
                              THEN <<Get(wd.extended_analysis).overall_recommendation>>
                              ELSE wd.viability_reason
            warnings == IF ScoreLT(trip_score, 30) THEN <<"Poor weather conditions expected">>
                        ELSE IF ScoreLT(trip_score, 50) THEN <<"Moderate weather conditions">>
                        ELSE <<>>
        IN [viable |-> ScoreGE(trip_score, 40),
            score |-> trip_score,
            reason |-> recommendation,
            warnings |-> warnings,
            recommendations |-> wd.recommendations]

\* TravelTools.check_weather_viability; weather_data is a bundle, or None
\* for the empty dict {}
check_weather_viability(weather_data) ==
    IF IsSome(weather_data) /\ IsSome(Get(weather_data).error)
    THEN [viable |-> FALSE, score |-> IntScore(0),
          reason |-> <<"Weather data unavailable">>,
          warnings |-> <<"Cannot verify weather conditions">>,
          recommendations |-> <<"Check weather manually">>]
    ELSE
        LET wd == IF IsSome(weather_data) THEN Get(weather_data) ELSE ErrorBundle("")
            useExtended == IsSome(weather_data) /\ IsSome(wd.extended_analysis)
            trip_score == IF useExtended THEN Get(wd.extended_analysis).overall_trip_score
                          ELSE IF IsSome(weather_data) /\ IsSome(wd.viability_score)
                          THEN Get(wd.viability_score)
                          ELSE IntScore(50)
            recommendation == IF useExtended
                              THEN <<Get(wd.extended_analysis).overall_recommendation>>
                              ELSE wd.viability_reason
            warnings == IF ScoreLT(trip_score, 30) THEN <<"Poor weather conditions expected">>
                        ELSE IF ScoreLT(trip_score, 50) THEN <<"Moderate weather conditions">>
                        ELSE <<>>
        IN [viable |-> ScoreGE(trip_score, 40),
            score |-> trip_score,
            reason |-> recommendation,
            warnings |-> warnings,
            recommendations |-> wd.recommendations]

(***************************************************************************)
(* tools/search_tool.py, tools/flight_tools.py: result lists               *)
(*                                                                         *)
(* A search outcome is the number of usable entries the web search gave    *)
(* (0 when the search failed); every entry is a dict without an 'error'    *)
(* key.                                                                    *)
(***************************************************************************)
Entries(source, n) == [i \in 1..n |-> [name |-> i, source |-> source, error |-> None]]

Take(s, n) == SubSeq(s, 1, Min(n, Len(s)))

\* SearchTool._generate_destination_specific_hotels: 8 templates for 'goa'
\* and 'bangalore', 4 by default, of which the first 6 are used
generate_destination_specific_hotels(destination, budget) ==
    Take(Entries("enhanced_mock", IF destination = "Goa" THEN 8 ELSE 4), 6)

\* SearchTool.search_hotels
search_hotels(destination, budget, hits) ==
    LET hotels == Entries("web_search", hits) IN
    IF Len(hotels) >= 3 THEN Take(hotels, 6)
    ELSE generate_destination_specific_hotels(destination, budget)

\* SearchTool.search_attractions with _get_destination_specific_attractions
\* (6 entries for 'goa', none for an unknown destination)
search_attractions(destination, preferences, hits) ==
    LET attractions == Entries("web_search", hits)
        defaults == Entries("destination_database", IF destination = "Goa" THEN 6 ELSE 0)
    IN Take(IF Len(attractions) < 4 THEN attractions \o defaults ELSE attractions, 8)

\* FlightTools.search_flights: the 'flights' list of its result
search_flights_tool(origin, destination, date, budget, hits) ==
    LET real_flights == Take(Entries("web_search", hits), 4) IN
    IF real_flights # <<>> /\ Len(real_flights) >= 2 THEN real_flights
    ELSE Entries("enhanced_mock", 4)

(***************************************************************************)
(* tools/travel_tools.py: aggregation                                      *)
(*                                                                         *)
(* travel_dates is the sequence of date texts that dates.split(' to ')     *)
(* yields, each a day number (0: a text strptime rejects); the empty       *)
(* sequence is the empty string, whose split is one empty text.            *)
(*                                                                         *)
(* ext is the outcome of the external calls of one GatherData execution:   *)
(*   api                  the weather provider's answer (see above)        *)
(*   hotel_hits, attraction_hits, flight_hits   usable search entries      *)
(*   fault  "none", "tools" (an exception inside the try block of          *)
(*          get_comprehensive_travel_data) or "node" (an exception inside  *)
(*          the try block of gather_travel_data)                           *)
(***************************************************************************)
SplitDates(dates) == IF dates = <<>> THEN <<0>> ELSE dates

\* TravelTools.get_comprehensive_travel_data, after the weather call has
\* given weather_data: the analysis, the verdict and the three searches
comprehensive_data(weather_data, destination, start_date, budget, preferences, origin_city, ext) ==
    [status |-> "success", error |-> None,
     weather_data |-> Some(weather_data),
     weather_analysis |-> Some(IF IsSome(weather_data.weather_analysis)
                               THEN Get(weather_data.weather_analysis)
                               ELSE NoWeatherAnalysis),
     weather_viability |-> Some(check_weather_viability(Some(weather_data))),
     hotel_options |-> search_hotels(destination, budget, ext.hotel_hits),
     attraction_options |-> search_attractions(destination, preferences, ext.attraction_hits),
     flight_options |-> search_flights_tool(origin_city, destination, start_date, budget, ext.flight_hits),
     search_results |-> <<>>]

\* TravelTools.get_comprehensive_travel_data
get_comprehensive_travel_data(destination, dates, budget, preferences, origin_city, ext) ==
    IF ext.fault = "tools"
    THEN [status |-> "error", error |-> Some("Travel data collection failed"),
          weather_data |-> None, weather_analysis |-> None, weather_viability |-> None,
          hotel_options |-> <<>>, attraction_options |-> <<>>, flight_options |-> <<>>,
          search_results |-> <<>>]
    ELSE
        LET date_parts == SplitDates(dates)
            start_date == date_parts[1]
            end_date == IF Len(date_parts) > 1 THEN date_parts[2] ELSE start_date
        IN comprehensive_data(
               get_extended_weather_forecast(destination, start_date, end_date, ext.api),
               destination, start_date, budget, preferences, origin_city, ext)

(***************************************************************************)
(* chains/itinerary_chain.py                                               *)
(*                                                                         *)
(* An itinerary text is [length, has]: its number of characters and the    *)
(* set of marker and keyword strings that occur in it.                     *)
(* llm is the text generator's outcome: [ok, content].                     *)
(***************************************************************************)
Text(n, tokens) == [length |-> n, has |-> tokens]

\* ItineraryChain._generate_fallback_itinerary: the fixed template; the day
\* sections carry the Morning/Afternoon headings, the tips the three
\* category words ('hotel' through "No hotel information available", the
\* chain never receiving the hotel list under the key it reads)
generate_fallback_itinerary(destination, duration, preferences, travel_type) ==
    Text(900 + 250 * Max(duration, 0),
         {"hotel", "activities", "restaurant"}
            \cup (IF duration >= 1 THEN {"Morning", "Afternoon"} ELSE {}))

\* ItineraryChain.generate_itinerary
chain_generate_itinerary(travel_data, duration, preferences, travel_type, llm) ==
    IF llm.ok THEN llm.content
    ELSE generate_fallback_itinerary(travel_data.destination, duration, preferences, travel_type)

\* A line of the text generator's answer, after strip():
\*   [prefix |-> n, body |-> b] is  b  when n = 0,  "n."  when b = "" and
\*   "n. b"  otherwise (n a single digit)
Line(n, b) == [prefix |-> n, body |-> b]
IsBlank(line) == line.prefix = 0 /\ line.body = ""
StartsWithAlternative(line) == line.prefix = 0 /\ line.body = "Alternative dates:"

\* the element the list comprehension of generate_alternative_suggestions
\* builds for line number i (from 0): line.strip()[3:] when the line starts
\* with "{i+1}.", else line.strip()
ParseLine(i, line) == IF line.prefix = i + 1 THEN Line(0, line.body) ELSE line

RECURSIVE ParseLines(_, _)
ParseLines(i, lines) ==
    IF lines = <<>> THEN <<>>
    ELSE LET line == Head(lines)
             rest == ParseLines(i + 1, Tail(lines))
         IN IF ~IsBlank(line) /\ ~StartsWithAlternative(line)
            THEN <<ParseLine(i, line)>> \o rest
            ELSE rest

\* mutant: the list is returned without the [:3] slice
generate_alternative_suggestions_unsliced(destination, issue, preferences, llm) ==
    IF llm.ok
    THEN LET alternatives == ParseLines(0, llm.content)
         IN SelectSeq(alternatives, LAMBDA alt : ~IsBlank(alt))
    ELSE << Line(0, "Consider visiting {destination} during different dates with better weather"),
            Line(0, "Explore indoor activities and museums in {destination}"),
            Line(0, "Look for nearby destinations with better weather conditions") >>

\* ItineraryChain.generate_alternative_suggestions
generate_alternative_suggestions(destination, issue, preferences, llm) ==
    IF llm.ok
    THEN LET alternatives == ParseLines(0, llm.content)
         IN Take(SelectSeq(alternatives, LAMBDA alt : ~IsBlank(alt)), 3)
    ELSE << Line(0, "Consider visiting {destination} during different dates with better weather"),
            Line(0, "Explore indoor activities and museums in {destination}"),
            Line(0, "Look for nearby destinations with better weather conditions") >>

(***************************************************************************)
(* agents/state.py, config/settings.py                                     *)
(***************************************************************************)
MAX_ITERATIONS == 10

\* a conversation_history entry; the formatted parts of its content are args
Msg(text, args) == [role |-> "system", content |-> text, args |-> args]

\* TripPlannerState with no channel written: optional channels are None,
\* list channels empty
EmptyState ==
    [destination |-> "", travel_dates |-> <<>>, duration |-> 0, budget |-> 0,
     preferences |-> <<>>, travel_type |-> "", user_feedback |-> None,
     current_step |-> "", requires_input |-> None,
     conversation_history |-> <<>>, missing_information |-> <<>>,
     weather_data |-> None, weather_analysis |-> None, weather_viability |-> None,
     hotel_options |-> <<>>, attraction_options |-> <<>>, flight_options |-> <<>>,
     search_results |-> <<>>, weather_score |-> None,
     itinerary |-> None, alternative_suggestions |-> <<>>,
     final_recommendation |-> None, itinerary_quality_score |-> None,
     should_continue |-> None, max_iterations |-> 0, current_iteration |-> 0,
     error_message |-> None, retry_count |-> 0]

\* the engine's merge of a node's partial update: keys of the schema only,
\* the returned value replaces the stored one
Merge(s, update) ==
    [k \in DOMAIN s |-> IF k \in DOMAIN update THEN update[k] ELSE s[k]]

(***************************************************************************)
(* agents/trip_planner.py: nodes                                           *)
(***************************************************************************)
\* mutant: the budget is not checked
required_fields_no_budget == <<"destination", "travel_dates", "duration">>

required_fields == <<"destination", "travel_dates", "duration", "budget">>

\* Python truthiness of a required field's value
Truthy(s, field) ==
    CASE field = "destination" -> s.destination # ""
      [] field = "travel_dates" -> s.travel_dates # <<>>
      [] field = "duration" -> s.duration # 0
      [] field = "budget" -> s.budget # 0

\* mutant: the node never reports the input as complete
collect_user_input_never_complete(s) ==
    [current_step |-> "input_collection",
     requires_input |-> Some(TRUE),
     missing_information |-> <<>>]

\* mutant: a complete input is logged too
collect_user_input_logs_complete(s) ==
    LET missing_info == s.missing_information
        new_missing == SelectSeq(required_fields, LAMBDA field : ~Truthy(s, field))
    IN IF new_missing = <<>> /\ missing_info = <<>>
       THEN [current_step |-> "data_collection",
             requires_input |-> Some(FALSE),
             missing_information |-> <<>>,
             conversation_history |-> Append(s.conversation_history,
                                             Msg("Input complete", <<>>))]
       ELSE IF new_missing # <<>>
       THEN [current_step |-> "input_collection",
             requires_input |-> Some(TRUE),
             missing_information |-> new_missing,
             conversation_history |-> Append(s.conversation_history,
                                             Msg("Need information", new_missing))]
       ELSE [current_step |-> "data_collection",
             requires_input |-> Some(FALSE)]

\* TripPlannerAgent.collect_user_input
collect_user_input(s) ==
    LET missing_info == s.missing_information
        new_missing == SelectSeq(required_fields, LAMBDA field : ~Truthy(s, field))
    IN IF new_missing = <<>> /\ missing_info = <<>>
       THEN [current_step |-> "data_collection",
             requires_input |-> Some(FALSE),
             missing_information |-> <<>>]
       ELSE IF new_missing # <<>>
       THEN [current_step |-> "input_collection",
             requires_input |-> Some(TRUE),
             missing_information |-> new_missing,
             conversation_history |-> Append(s.conversation_history,
                                             Msg("Need information", new_missing))]
       ELSE [current_step |-> "data_collection",
             requires_input |-> Some(FALSE)]

\* TripPlannerAgent.gather_travel_data, after its call of
\* get_comprehensive_travel_data has given travel_data
store_travel_data(s, travel_data) ==
       IF travel_data.status = "success"
       THEN [weather_data |-> travel_data.weather_data,
             weather_analysis |-> travel_data.weather_analysis,
             weather_viability |-> Some(check_weather_viability(travel_data.weather_data)),
             hotel_options |-> travel_data.hotel_options,
             attraction_options |-> travel_data.attraction_options,
             flight_options |-> travel_data.flight_options,
             search_results |-> travel_data.search_results,
             current_step |-> "weather_analysis",
             conversation_history |-> Append(s.conversation_history,
                                             Msg("Travel data collected successfully", <<>>))]
       ELSE [error_message |-> travel_data.error,
             current_step |-> "error_handling",
             conversation_history |-> Append(s.conversation_history,
                                             Msg("Data collection error", <<Get(travel_data.error)>>))]

\* TripPlannerAgent.gather_travel_data
gather_travel_data(s, ext) ==
    IF ext.fault = "node"
    THEN [error_message |-> Some("Data collection failed"),
          current_step |-> "error_handling",
          conversation_history |-> Append(s.conversation_history,
                                          Msg("Data collection exception", <<>>))]
    ELSE store_travel_data(s, get_comprehensive_travel_data(
             s.destination, s.travel_dates, s.budget, s.preferences, "New York", ext))

\* state.get('weather_viability', {}).get(key, default)
Viable(s) == IF IsSome(s.weather_viability) THEN Get(s.weather_viability).viable ELSE FALSE
ViabilityScore(s) == IF IsSome(s.weather_viability) THEN Get(s.weather_viability).score ELSE IntScore(0)

\* the text state.get('weather_analysis', '') of a state without the key
EmptyAnalysis ==
    [available |-> FALSE, quoted_score |-> None, remarks |-> <<>>, appended |-> <<>>]

\* mutant: the non-viable branch stores no suggestions
analyze_weather_without_suggestions(s, fault) ==
    LET weather_score == IF IsSome(s.weather_score) THEN Get(s.weather_score) ELSE IntScore(0)
        weather_analysis == IF IsSome(s.weather_analysis) THEN Get(s.weather_analysis)
                            ELSE EmptyAnalysis
        analysis_update == [weather_analysis EXCEPT !.appended = Append(@, weather_score)]
    IN IF fault
       THEN [current_step |-> "alternative_planning",
             error_message |-> Some("Weather analysis error"),
             conversation_history |-> Append(s.conversation_history,
                                             Msg("Weather analysis error", <<>>))]
       ELSE IF Viable(s)
       THEN [current_step |-> "accommodation_search",
             weather_analysis |-> Some(analysis_update),
             conversation_history |-> Append(s.conversation_history,
                                             Msg("Weather conditions favorable", <<>>))]
       ELSE [current_step |-> "alternative_planning",
             weather_analysis |-> Some(analysis_update),
             conversation_history |-> Append(s.conversation_history,
                 Msg("Weather conditions unfavorable, generating alternatives", <<>>))]

\* TripPlannerAgent.analyze_weather; fault: its try block raised
analyze_weather(s, fault) ==
    LET weather_score == IF IsSome(s.weather_score) THEN Get(s.weather_score) ELSE IntScore(0)
        weather_analysis == IF IsSome(s.weather_analysis) THEN Get(s.weather_analysis)
                            ELSE EmptyAnalysis
        analysis_update == [weather_analysis EXCEPT !.appended = Append(@, weather_score)]
    IN IF fault
       THEN [current_step |-> "alternative_planning",
             error_message |-> Some("Weather analysis error"),
             conversation_history |-> Append(s.conversation_history,
                                             Msg("Weather analysis error", <<>>))]
       ELSE IF Viable(s)
       THEN [current_step |-> "accommodation_search",
             weather_analysis |-> Some(analysis_update),
             conversation_history |-> Append(s.conversation_history,
                                             Msg("Weather conditions favorable", <<>>))]
       ELSE [current_step |-> "alternative_planning",
             weather_analysis |-> Some(analysis_update),
             alternative_suggestions |-> << Line(0, "Consider alternative dates"),
                                            Line(0, "Look for nearby destinations"),
                                            Line(0, "Plan indoor activities") >>,
             conversation_history |-> Append(s.conversation_history,
                 Msg("Weather conditions unfavorable, generating alternatives", <<>>))]

\* TripPlannerAgent._is_within_budget
is_within_budget(hotel, budget) == TRUE

\* mutant: the list is not cut to three entries
search_accommodations_keeps_all(s) ==
    LET hotels == s.hotel_options
        budget == s.budget
        filtered_hotels == SelectSeq(hotels, LAMBDA hotel :
                               ~IsSome(hotel.error) /\ is_within_budget(hotel, budget))
    IN [hotel_options |-> filtered_hotels,
        current_step |-> "flight_search",
        conversation_history |-> Append(s.conversation_history,
            Msg("Found {n} accommodation options", <<ToString(Len(filtered_hotels))>>))]

\* TripPlannerAgent.search_accommodations
search_accommodations(s) ==
    LET hotels == s.hotel_options
        budget == s.budget
        filtered_hotels == Take(SelectSeq(hotels, LAMBDA hotel :
                                   ~IsSome(hotel.error) /\ is_within_budget(hotel, budget)), 3)
    IN [hotel_options |-> filtered_hotels,
        current_step |-> "flight_search",
        conversation_history |-> Append(s.conversation_history,
            Msg("Found {n} accommodation options", <<ToString(Len(filtered_hotels))>>))]

\* mutant: the node also caps the budget
search_flights_caps_budget(s) ==
    [flight_options |-> s.flight_options,
     budget |-> Min(s.budget, 1000),
     current_step |-> "itinerary_generation",
     conversation_history |-> Append(s.conversation_history,
         Msg("Found {n} flight options", <<ToString(Len(s.flight_options))>>))]

\* TripPlannerAgent.search_flights
search_flights(s) ==
    LET flights == s.flight_options
    IN [flight_options |-> flights,
        current_step |-> "itinerary_generation",
        conversation_history |-> Append(s.conversation_history,
            Msg("Found {n} flight options", <<ToString(Len(flights))>>))]

\* mutant: a day/time marker is worth 10
calculate_itinerary_quality_marker_10(itinerary, s) ==
    IF itinerary.length = 0 THEN 0
    ELSE LET score == 50
                + (IF itinerary.length > 500 THEN 20 ELSE 0)
                + (IF \E marker \in {"Day 1", "Day 2", "Morning", "Afternoon"} :
                          marker \in itinerary.has THEN 10 ELSE 0)
                + (IF \A keyword \in {"hotel", "activities", "restaurant"} :
                          keyword \in itinerary.has THEN 10 ELSE 0)
         IN Min(100, score)

\* mutant: the base score is 60
calculate_itinerary_quality_base_60(itinerary, s) ==
    IF itinerary.length = 0 THEN 0
    ELSE LET score == 60
                + (IF itinerary.length > 500 THEN 20 ELSE 0)
                + (IF \E marker \in {"Day 1", "Day 2", "Morning", "Afternoon"} :
                          marker \in itinerary.has THEN 20 ELSE 0)
                + (IF \A keyword \in {"hotel", "activities", "restaurant"} :
                          keyword \in itinerary.has THEN 10 ELSE 0)
         IN Min(100, score)

\* mutant: one content keyword is enough for the bonus
calculate_itinerary_quality_any_keyword(itinerary, s) ==
    IF itinerary.length = 0 THEN 0
    ELSE LET score == 50
                + (IF itinerary.length > 500 THEN 20 ELSE 0)
                + (IF \E marker \in {"Day 1", "Day 2", "Morning", "Afternoon"} :
                          marker \in itinerary.has THEN 20 ELSE 0)
                + (IF \E keyword \in {"hotel", "activities", "restaurant"} :
                          keyword \in itinerary.has THEN 10 ELSE 0)
         IN Min(100, score)

\* TripPlannerAgent._calculate_itinerary_quality; itinerary is a text
calculate_itinerary_quality(itinerary, s) ==
    IF itinerary.length = 0 THEN 0
    ELSE LET score == 50
                + (IF itinerary.length > 500 THEN 20 ELSE 0)
                + (IF \E marker \in {"Day 1", "Day 2", "Morning", "Afternoon"} :
                          marker \in itinerary.has THEN 20 ELSE 0)
                + (IF \A keyword \in {"hotel", "activities", "restaurant"} :
                          keyword \in itinerary.has THEN 10 ELSE 0)
         IN Min(100, score)

\* mutant: a generated itinerary resets error_message
generate_itinerary_clears_error(s, llm, fault) ==
    LET itinerary == chain_generate_itinerary(
            [destination |-> s.destination, weather_analysis |-> s.weather_analysis,
             hotels |-> s.hotel_options, attractions |-> s.attraction_options,
             flights |-> s.flight_options],
            s.duration, s.preferences, s.travel_type, llm)
        quality_score == calculate_itinerary_quality(itinerary, s)
    IN IF fault
       THEN [error_message |-> Some("Itinerary generation failed"),
             current_step |-> "alternative_planning",
             conversation_history |-> Append(s.conversation_history,
                                             Msg("Itinerary generation error", <<>>))]
       ELSE [itinerary |-> Some(itinerary),
             error_message |-> None,
             itinerary_quality_score |-> Some(quality_score),
             current_step |-> "finalization",
             final_recommendation |-> Some([text |-> "Trip plan generated with quality score: {q}/100",
                                            args |-> <<ToString(quality_score)>>,
                                            summary |-> None]),
             conversation_history |-> Append(s.conversation_history,
                                             Msg("Itinerary generated successfully", <<>>))]

\* TripPlannerAgent.generate_itinerary; llm: the text generator's outcome,
\* fault: the try block raised
generate_itinerary(s, llm, fault) ==
    LET itinerary == chain_generate_itinerary(
            [destination |-> s.destination, weather_analysis |-> s.weather_analysis,
             hotels |-> s.hotel_options, attractions |-> s.attraction_options,
             flights |-> s.flight_options],
            s.duration, s.preferences, s.travel_type, llm)
        quality_score == calculate_itinerary_quality(itinerary, s)
    IN IF fault
       THEN [error_message |-> Some("Itinerary generation failed"),
             current_step |-> "alternative_planning",
             conversation_history |-> Append(s.conversation_history,
                                             Msg("Itinerary generation error", <<>>))]
       ELSE [itinerary |-> Some(itinerary),
             itinerary_quality_score |-> Some(quality_score),
             current_step |-> "finalization",
             final_recommendation |-> Some([text |-> "Trip plan generated with quality score: {q}/100",
                                            args |-> <<ToString(quality_score)>>,
                                            summary |-> None]),
             conversation_history |-> Append(s.conversation_history,
                                             Msg("Itinerary generated successfully", <<>>))]

ApologyText == "Unable to create optimal plan. Please try different parameters."

\* TripPlannerAgent.provide_alternatives
provide_alternatives(s, llm, fault) ==
    LET alternatives == generate_alternative_suggestions(
            s.destination,
            IF IsSome(s.error_message) THEN Get(s.error_message)
            ELSE "Planning constraints encountered",
            s.preferences, llm)
    IN IF fault
       THEN [alternative_suggestions |-> <<Line(0, "Please adjust your travel parameters and try again")>>,
             current_step |-> "finalization",
             final_recommendation |-> Some([text |-> ApologyText, args |-> <<>>, summary |-> None]),
             conversation_history |-> Append(s.conversation_history,
                                             Msg("Alternative generation error", <<>>))]
       ELSE [alternative_suggestions |-> alternatives,
             current_step |-> "finalization",
             final_recommendation |-> Some([text |-> "Alternative travel suggestions provided",
                                            args |-> <<>>, summary |-> None]),
             conversation_history |-> Append(s.conversation_history,
                                             Msg("Generated alternative suggestions", <<>>))]

\* mutant: a score never stored reads as 50
finalize_recommendation_default_50(s) ==
    LET recommendation ==
            [status |-> "completed",
             itinerary |-> s.itinerary,
             alternative_suggestions |-> s.alternative_suggestions,
             quality_score |-> IF IsSome(s.itinerary_quality_score)
                               THEN Get(s.itinerary_quality_score) ELSE 50,
             weather_analysis |-> s.weather_analysis,
             hotel_options |-> s.hotel_options,
             flight_options |-> s.flight_options]
    IN [current_step |-> "completed",
        requires_input |-> Some(FALSE),
        should_continue |-> Some(FALSE),
        final_recommendation |-> Some([text |-> "", args |-> <<>>,
                                       summary |-> Some(recommendation)]),
        conversation_history |-> Append(s.conversation_history,
                                        Msg("Recommendation finalized", <<>>))]

\* TripPlannerAgent.finalize_recommendation
finalize_recommendation(s) ==
    LET recommendation ==
            [status |-> "completed",
             itinerary |-> s.itinerary,
             alternative_suggestions |-> s.alternative_suggestions,
             quality_score |-> IF IsSome(s.itinerary_quality_score)
                               THEN Get(s.itinerary_quality_score) ELSE 0,
             weather_analysis |-> s.weather_analysis,
             hotel_options |-> s.hotel_options,
             flight_options |-> s.flight_options]
    IN [current_step |-> "completed",
        requires_input |-> Some(FALSE),
        should_continue |-> Some(FALSE),
        final_recommendation |-> Some([text |-> "", args |-> <<>>,
                                       summary |-> Some(recommendation)]),
        conversation_history |-> Append(s.conversation_history,
                                        Msg("Recommendation finalized", <<>>))]

(***************************************************************************)
(* agents/trip_planner.py: routing functions and the edges of _build_graph *)
(***************************************************************************)
\* mutant: the step tag is the dispatch key
decide_after_input_collection_by_step(s) ==
    IF IsSome(s.error_message) THEN "error"
    ELSE IF s.current_step = "data_collection" THEN "complete"
    ELSE "incomplete"

decide_after_input_collection(s) ==
    IF IsSome(s.error_message) THEN "error"
    ELSE IF ~(IF IsSome(s.requires_input) THEN Get(s.requires_input) ELSE TRUE) THEN "complete"
    ELSE "incomplete"

\* mutant: the error marker of the bundle is not looked at
decide_after_data_collection_no_marker(s) ==
    IF IsSome(s.error_message) THEN "error"
    ELSE IF IsSome(s.weather_data) THEN "weather_check"
    ELSE "direct_planning"

\* mutant: a weather bundle with an error marker counts as an error
decide_after_data_collection_weather_required(s) ==
    IF IsSome(s.error_message) THEN "error"
    ELSE IF IsSome(s.weather_data) /\ ~IsSome(Get(s.weather_data).error) THEN "weather_check"
    ELSE "error"

\* a bundle is a non-empty dict, so state.get('weather_data') is truthy
\* exactly when the key is present
decide_after_data_collection(s) ==
    IF IsSome(s.error_message) THEN "error"
    ELSE IF IsSome(s.weather_data) /\ ~IsSome(Get(s.weather_data).error) THEN "weather_check"
    ELSE "direct_planning"

\* mutant: every non-viable score is unfavorable
decide_after_weather_analysis_lt40(s) ==
    IF Viable(s) THEN "favorable"
    ELSE IF ScoreLT(ViabilityScore(s), 40) THEN "unfavorable"
    ELSE "conditional"

decide_after_weather_analysis(s) ==
    IF Viable(s) THEN "favorable"
    ELSE IF ScoreLT(ViabilityScore(s), 30) THEN "unfavorable"
    ELSE "conditional"

\* mutant: the acceptance threshold is 60
decide_after_itinerary_ge60(s) ==
    IF IsSome(s.error_message) THEN "error"
    ELSE IF (IF IsSome(s.itinerary_quality_score) THEN Get(s.itinerary_quality_score) ELSE 0) >= 60
    THEN "success"
    ELSE "needs_improvement"

\* mutant: error_message is not looked at
decide_after_itinerary_no_error(s) ==
    IF (IF IsSome(s.itinerary_quality_score) THEN Get(s.itinerary_quality_score) ELSE 0) >= 70
    THEN "success"
    ELSE "needs_improvement"

decide_after_itinerary(s) ==
    IF IsSome(s.error_message) THEN "error"
    ELSE IF (IF IsSome(s.itinerary_quality_score) THEN Get(s.itinerary_quality_score) ELSE 0) >= 70
    THEN "success"
    ELSE "needs_improvement"

decide_after_finalization(s) == "accepted"

\* state.get('user_feedback', '').lower()
Feedback(s) == Lower(IF IsSome(s.user_feedback) THEN Get(s.user_feedback) ELSE <<>>)

\* TripPlannerAgent.handle_feedback
handle_feedback(s) ==
    LET feedback == Feedback(s)
        next_action ==
            IF AnyWordIn(feedback, {W_weather, W_rain, W_storm}) THEN "weather_recheck"
            ELSE IF AnyWordIn(feedback, {W_hotel, W_accommodation, W_stay}) THEN "new_search"
            ELSE IF AnyWordIn(feedback, {W_itinerary, W_schedule, W_plan}) THEN "regenerate"
            ELSE "regenerate"
    IN [current_step |-> next_action,
        conversation_history |-> Append(s.conversation_history,
                                        Msg("Processing feedback, next action", <<next_action>>))]

\* TripPlannerAgent.decide_after_feedback
decide_after_feedback(s) ==
    LET feedback == Feedback(s) IN
    IF AnyWordIn(feedback, {W_weather, W_rain}) THEN "weather_recheck"
    ELSE IF AnyWordIn(feedback, {W_hotel, W_flight}) THEN "new_search"
    ELSE "regenerate"

\* the decision key taken after a node ("edge" for add_edge)
Decide(node, s) ==
    CASE node = "collect_user_input" -> decide_after_input_collection(s)
      [] node = "gather_travel_data" -> decide_after_data_collection(s)
      [] node = "analyze_weather" -> decide_after_weather_analysis(s)
      [] node = "generate_itinerary" -> decide_after_itinerary(s)
      [] node = "finalize_recommendation" -> decide_after_finalization(s)
      [] node = "handle_feedback" -> decide_after_feedback(s)
      [] OTHER -> "edge"

\* TripPlannerAgent._build_graph: the target of each edge
Edges(node, key) ==
    CASE node = "collect_user_input" ->
            (CASE key = "complete" -> "gather_travel_data"
               [] key = "incomplete" -> "collect_user_input"
               [] key = "error" -> "provide_alternatives")
      [] node = "gather_travel_data" ->
            (CASE key = "weather_check" -> "analyze_weather"
               [] key = "direct_planning" -> "search_flights"
               [] key = "error" -> "provide_alternatives")
      [] node = "analyze_weather" ->
            (CASE key = "favorable" -> "search_accommodations"
               [] key = "unfavorable" -> "provide_alternatives"
               [] key = "conditional" -> "search_flights")
      [] node = "search_accommodations" -> "search_flights"
      [] node = "search_flights" -> "generate_itinerary"
      [] node = "generate_itinerary" ->
            (CASE key = "success" -> "finalize_recommendation"
               [] key = "needs_improvement" -> "provide_alternatives"
               [] key = "error" -> "provide_alternatives")
      [] node = "finalize_recommendation" ->
            (CASE key = "accepted" -> "END"
               [] key = "needs_revision" -> "handle_feedback"
               [] key = "rejected" -> "provide_alternatives")
      [] node = "handle_feedback" ->
            (CASE key = "regenerate" -> "generate_itinerary"
               [] key = "new_search" -> "gather_travel_data"
               [] key = "weather_recheck" -> "analyze_weather")
      [] node = "provide_alternatives" -> "finalize_recommendation"

Nodes == {"collect_user_input", "gather_travel_data", "analyze_weather",
          "search_accommodations", "search_flights", "generate_itinerary",
          "provide_alternatives", "finalize_recommendation", "handle_feedback"}

(***************************************************************************)
(* Inputs: planning requests and outcomes of the external calls            *)
(***************************************************************************)
S_clear_sky == <<"c","l","e","a","r"," ","s","k","y">>
S_thunderstorm == <<"t","h","u","n","d","e","r","s","t","o","r","m">>
S_Snow == <<"S","n","o","w">>

Conditions(t, d, w) == [temperature |-> t, description |-> d, wind_speed |-> w]

CurrentSamples == { Conditions(25, S_clear_sky, 5),
                    Conditions(-5, S_thunderstorm, 10),
                    Conditions(3, S_Snow, 20) }

ForecastSamples == { <<>>, <<Conditions(3, S_Snow, 20)>> }

WeatherAnswers ==
    { [geo_ok |-> FALSE, fault |-> FALSE, current |-> None, forecast |-> <<>>],
      [geo_ok |-> TRUE, fault |-> TRUE, current |-> None, forecast |-> <<>>],
      [geo_ok |-> TRUE, fault |-> FALSE, current |-> None, forecast |-> <<>>] }
    \cup { [geo_ok |-> TRUE, fault |-> FALSE, current |-> Some(c), forecast |-> f] :
              c \in CurrentSamples, f \in ForecastSamples }

\* an exception inside a try block makes the other outcomes irrelevant
ExternalOutcomes ==
    [api : WeatherAnswers, hotel_hits : {0, 4}, attraction_hits : {0},
     flight_hits : {0, 3}, fault : {"none"}]
    \cup
    [api : {CHOOSE a \in WeatherAnswers : ~a.geo_ok,
            CHOOSE a \in WeatherAnswers : IsSome(a.current)},
     hotel_hits : {0}, attraction_hits : {0}, flight_hits : {0},
     fault : {"tools", "node"}]

ItineraryTexts == { Text(0, {}),
                    Text(500, {"Day 1"}),
                    Text(500, {"hotel", "activities", "restaurant"}),
                    Text(120, {"Day 1"}),
                    Text(600, {"Day 1", "Morning", "hotel", "activities", "restaurant"}) }

\* llm: the text generator's outcome; fault: the node's try block raised
ItineraryOutcomes ==
    { [llm |-> [ok |-> TRUE, content |-> t], fault |-> FALSE] : t \in ItineraryTexts }
    \cup { [llm |-> [ok |-> FALSE, content |-> Text(0, {})], fault |-> f] : f \in BOOLEAN }

LineSamples == { Line(0, ""), Line(0, "Alternative dates:"), Line(0, "Try the coast"),
                 Line(1, ""), Line(2, "Go in May") }

RECURSIVE SeqsUpTo(_, _)
SeqsUpTo(S, n) ==
    IF n = 0 THEN {<<>>}
    ELSE LET shorter == SeqsUpTo(S, n - 1)
         IN shorter \cup { Append(q, x) : q \in shorter, x \in S }

AlternativeOutcomes ==
    { [llm |-> [ok |-> TRUE, content |-> c], fault |-> FALSE] :
          c \in SeqsUpTo(LineSamples, MaxLines) }
    \cup { [llm |-> [ok |-> FALSE, content |-> <<>>], fault |-> f] : f \in BOOLEAN }

DateInputs == { <<>>, <<1, 2>>, <<2, 1>>, <<0>> }

\* what a caller hands to plan_trip: a dict (mapping) of request facts,
\* optionally with error_message or missing_information, or not a dict
Requests ==
    [mapping : {TRUE}, destination : {"", "Goa"}, travel_dates : DateInputs,
     duration : {0, 2}, budget : {0, 1500},
     preferences : {<<"Food">>}, travel_type : {"leisure"},
     conversation_history : {<<>>},
     error_message : {None, Some("Upstream error")},
     missing_information : {None, Some(<<"budget">>)}]
    \cup
    [mapping : {FALSE}, destination : {""}, travel_dates : {<<>>},
     duration : {0}, budget : {0}, preferences : {<<>>}, travel_type : {""},
     conversation_history : {<<>>}, error_message : {None},
     missing_information : {None}]

(***************************************************************************)
(* The run of plan_trip                                                    *)
(***************************************************************************)
VARIABLES
    request,    \* the argument of plan_trip
    state,      \* the graph's TripPlannerState
    pc,         \* "call", the node to run next, "END", "caught" or "raised"
    steps,      \* supersteps executed
    trace,      \* the nodes executed, in order
    decisions,  \* the decision key taken after each executed node
    result      \* Some(the dict plan_trip returned), None before and on a raise

vars == <<request, state, pc, steps, trace, decisions, result>>

Init ==
    /\ request \in Requests
    /\ state = EmptyState
    /\ pc = "call"
    /\ steps = 0
    /\ trace = <<>>
    /\ decisions = <<>>
    /\ result = None

\* plan_trip, lines 452-460: the defaults overridden by **initial_state
InitialState(req) ==
    [EmptyState EXCEPT
        !.max_iterations = MAX_ITERATIONS,
        !.current_iteration = 0,
        !.should_continue = Some(TRUE),
        !.conversation_history = req.conversation_history,
        !.missing_information = IF IsSome(req.missing_information)
                                THEN Get(req.missing_information) ELSE <<>>,
        !.retry_count = 0,
        !.destination = req.destination,
        !.travel_dates = req.travel_dates,
        !.duration = req.duration,
        !.budget = req.budget,
        !.preferences = req.preferences,
        !.travel_type = req.travel_type,
        !.error_message = req.error_message]

\* plan_trip, lines 470-478: the dict built by the except clause
ErrorState(req) ==
    [EmptyState EXCEPT
        !.error_message = Some("Trip planning failed"),
        !.itinerary = None,
        !.final_recommendation = Some([text |-> "Unable to generate travel plan. Please try again.",
                                       args |-> <<>>, summary |-> None]),
        !.conversation_history = Append(req.conversation_history,
                                        Msg("Planning process error", <<>>))]

\* plan_trip is called: building the state dict raises TypeError when
\* initial_state is not a mapping, and the except clause then reads the
\* unbound local `state`, which raises to the caller
PlanTripCall ==
    /\ pc = "call"
    /\ IF request.mapping
       THEN /\ state' = InitialState(request)
            /\ pc' = "collect_user_input"
       ELSE /\ state' = state
            /\ pc' = "raised"
    /\ UNCHANGED <<request, steps, trace, decisions, result>>

\* one superstep: the node's update is merged, the routing function of the
\* node is evaluated on the merged state, the edge is followed
Step(node, update) ==
    /\ pc = node
    /\ steps < RecursionLimit
    /\ LET merged == Merge(state, update)
           key == Decide(node, merged)
           target == Edges(node, key)
       IN /\ state' = merged
          /\ pc' = target
          /\ decisions' = Append(decisions, key)
          /\ result' = IF target = "END" THEN Some(merged) ELSE None
    /\ steps' = steps + 1
    /\ trace' = Append(trace, node)
    /\ UNCHANGED request

CollectUserInput == Step("collect_user_input", collect_user_input(state))

GatherTravelData ==
    \E ext \in ExternalOutcomes :
        Step("gather_travel_data", gather_travel_data(state, ext))

AnalyzeWeather ==
    \E fault \in BOOLEAN :
        Step("analyze_weather", analyze_weather(state, fault))

SearchAccommodations == Step("search_accommodations", search_accommodations(state))

SearchFlights == Step("search_flights", search_flights(state))

GenerateItinerary ==
    \E o \in ItineraryOutcomes :
        Step("generate_itinerary", generate_itinerary(state, o.llm, o.fault))

ProvideAlternatives ==
    \E o \in AlternativeOutcomes :
        Step("provide_alternatives", provide_alternatives(state, o.llm, o.fault))

FinalizeRecommendation == Step("finalize_recommendation", finalize_recommendation(state))

\* the engine gives up after RecursionLimit supersteps; graph.invoke raises
\* and the except clause of plan_trip returns the error dict
RecursionFault ==
    /\ pc \in Nodes
    /\ steps = RecursionLimit
    /\ pc' = "caught"
    /\ result' = Some(ErrorState(request))
    /\ UNCHANGED <<request, state, steps, trace, decisions>>

Next ==
    \/ PlanTripCall
    \/ CollectUserInput
    \/ GatherTravelData
    \/ AnalyzeWeather
    \/ SearchAccommodations
    \/ SearchFlights
    \/ GenerateItinerary
    \/ ProvideAlternatives
    \/ FinalizeRecommendation
    \/ RecursionFault

Spec == Init /\ [][Next]_vars

\* the engine runs the graph to completion on one thread
FairSpec == Spec /\ WF_vars(Next)

(***************************************************************************)
(* Direct calls                                                            *)
(*                                                                         *)
(* The functions below are also called outside a run of plan_trip: the     *)
(* scoring helpers by the tools, the feedback node once a caller has       *)
(* stored user_feedback.  A direct call starts with its arguments in       *)
(* `request` (the state in `state` for a node), and leaves what the        *)
(* function returned in `result`.                                          *)
(***************************************************************************)
T_weather_stormy == <<"t","h","e"," ","w","e","a","t","h","e","r"," ","l","o","o","k","s"," ","s","t","o","r","m","y">>
T_different_hotel == <<"n","e","e","d"," ","a"," ","d","i","f","f","e","r","e","n","t"," ","h","o","t","e","l">>
T_looks_fine == <<"l","o","o","k","s"," ","f","i","n","e">>
T_storm_coming == <<"a"," ","S","t","o","r","m"," ","i","s"," ","c","o","m","i","n","g">>
T_longer_stay == <<"a"," ","l","o","n","g","e","r"," ","s","t","a","y">>
T_other_flight == <<"a","n","o","t","h","e","r"," ","f","l","i","g","h","t">>
T_new_plan == <<"n","e","w"," ","p","l","a","n">>

FeedbackTexts == { <<>>, T_weather_stormy, T_different_hotel, T_looks_fine,
                   T_storm_coming, T_longer_stay, T_other_flight, T_new_plan }

S_heavy_rain == <<"h","e","a","v","y"," ","r","a","i","n">>
S_overcast_clouds == <<"o","v","e","r","c","a","s","t"," ","c","l","o","u","d","s">>
S_Tornado == <<"T","o","r","n","a","d","o"," ","w","a","r","n","i","n","g">>
S_light_rain == <<"l","i","g","h","t"," ","r","a","i","n">>
S_snow_showers == <<"s","n","o","w"," ","s","h","o","w","e","r","s">>
S_mist == <<"m","i","s","t">>

DescriptionSamples == { <<>>, S_clear_sky, S_thunderstorm, S_Snow, S_heavy_rain,
                        S_overcast_clouds, S_Tornado, S_light_rain, S_snow_showers,
                        S_mist }
TemperatureSamples == {-5, 0, 3, 5, 7, 10, 15, 18, 25, 28, 30, 33, 35, 38, 40, 45}
WindSamples == {0, 5, 10, 20, 30}

SampleRequest ==
    [mapping |-> TRUE, destination |-> "Goa", travel_dates |-> <<1, 2>>,
     duration |-> 2, budget |-> 1500, preferences |-> <<"Food">>,
     travel_type |-> "leisure", conversation_history |-> <<>>,
     error_message |-> None, missing_information |-> None]

\* a finalized state in which the caller has stored feedback
FeedbackGiven ==
    /\ request = SampleRequest
    /\ \E f \in FeedbackTexts, e \in {None, Some("Weather analysis failed")} :
          state = [InitialState(SampleRequest) EXCEPT
                      !.user_feedback = Some(f), !.current_step = "completed",
                      !.error_message = e]
    /\ pc = "handle_feedback"

DailyScoreAsked ==
    /\ request \in [temperature : TemperatureSamples,
                    description : DescriptionSamples,
                    wind_speed : WindSamples]
    /\ state = EmptyState
    /\ pc = "daily_score"

\* a three-day forecast whose days score 80, 60 and 40
ThreeDayAnswer ==
    [geo_ok |-> TRUE, fault |-> FALSE,
     current |-> Some(Conditions(25, S_clear_sky, 5)),
     forecast |-> << Conditions(15, S_light_rain, 0),
                     Conditions(15, S_heavy_rain, 0),
                     Conditions(15, S_heavy_rain, 30) >>]

\* weather bundles: what the two forecast functions return, and bundles a
\* caller assembled with a single-point score other than the trip score or
\* without one
ForecastBundles ==
    { get_extended_weather_forecast("Goa", d[1], d[2], api) :
          d \in {<<1, 2>>, <<2, 1>>, <<0, 0>>}, api \in WeatherAnswers }
    \cup { get_weather_forecast("Goa", api) : api \in WeatherAnswers }

ViabilityScoreSamples == {0, 25, 29, 30, 39, 40, 45, 49, 50, 85, 100}

\* bundles without extended analysis whose single-point score is s
ScoredBundles ==
    { [get_weather_forecast("Goa", ThreeDayAnswer) EXCEPT
          !.viability_score = Some(IntScore(v))] : v \in ViabilityScoreSamples }

\* bundles that carry an error marker next to their other fields
MarkedBundles ==
    { [b EXCEPT !.error = Some("Weather API error")] : b \in ForecastBundles }

BundleSamples ==
    ForecastBundles
    \cup { [b EXCEPT !.viability_score = Some(IntScore(80))] : b \in ForecastBundles }
    \cup { [b EXCEPT !.viability_score = None] : b \in ForecastBundles }
    \cup ScoredBundles
    \cup MarkedBundles

ExtendedDateSamples == { <<1, 3>>, <<1, 2>>, <<1, 1>>, <<2, 1>>, <<3, 1>>, <<0, 0>> }

ExtendedForecastAsked ==
    /\ request \in { [city |-> "Goa", start_date |-> d[1], end_date |-> d[2], api |-> a] :
                         d \in ExtendedDateSamples,
                         a \in WeatherAnswers \cup {ThreeDayAnswer} }
    /\ state = EmptyState
    /\ pc = "extended_forecast"

ViabilityScoreAsked ==
    /\ request \in { [current_weather |-> Some(Conditions(t, d, w)), forecast |-> <<>>] :
                         t \in TemperatureSamples, d \in DescriptionSamples,
                         w \in WindSamples }
    /\ state = EmptyState
    /\ pc = "viability_score"

QualityTexts ==
    { Text(0, {}) }
    \cup { Text(n, tokens) :
              n \in {60, 500, 501, 600},
              tokens \in SUBSET {"Day 1", "Afternoon", "hotel", "activities", "restaurant"} }

QualityAsked ==
    /\ request \in { [itinerary |-> t] : t \in QualityTexts }
    /\ state = InitialState(SampleRequest)
    /\ pc = "itinerary_quality"

\* a state routed to provide_alternatives, and the text generator's outcome
AlternativesAsked ==
    /\ request \in
          { [llm |-> [ok |-> TRUE, content |-> c], fault |-> FALSE] :
                c \in SeqsUpTo(LineSamples, MaxAnswerLines) }
          \cup { [llm |-> [ok |-> FALSE, content |-> <<>>], fault |-> f] : f \in BOOLEAN }
    /\ state = [InitialState(SampleRequest) EXCEPT
                   !.error_message = Some("Weather conditions unfavorable")]
    /\ pc = "alternatives"

WeatherForecastAsked ==
    /\ request \in { [city |-> "Goa", api |-> a] : a \in WeatherAnswers \cup {ThreeDayAnswer} }
    /\ state = EmptyState
    /\ pc = "weather_forecast"

\* a state about to generate its itinerary, and the text generator's outcome
ItineraryAsked ==
    /\ request \in
          { [node |-> "generate_itinerary", llm |-> [ok |-> TRUE, content |-> t],
             fault |-> FALSE] : t \in QualityTexts }
          \cup { [node |-> "generate_itinerary",
                  llm |-> [ok |-> FALSE, content |-> Text(0, {})], fault |-> f] :
                     f \in BOOLEAN }
    /\ state = [InitialState(SampleRequest) EXCEPT !.current_step = "itinerary_generation"]
    /\ pc = "itinerary"

\* hotel lists a caller may hold, entries with an 'error' key among them
HotelLists ==
    LET ok(i) == [name |-> i, source |-> "web_search", error |-> None]
        bad(i) == [name |-> i, source |-> "web_search", error |-> Some("Search failed")]
    IN { <<>>,
         <<ok(1), ok(2)>>,
         <<bad(1)>>,
         <<ok(1), bad(2), ok(3), ok(4), ok(5)>>,
         <<bad(1), bad(2), ok(3), bad(4), ok(5), ok(6)>>,
         <<ok(1), ok(2), ok(3), ok(4), bad(5)>> }

\* a state about to execute search_accommodations
LodgingAsked ==
    /\ request = SampleRequest
    /\ \E hotels \in HotelLists :
          state = [InitialState(SampleRequest) EXCEPT
                      !.hotel_options = hotels, !.current_step = "accommodation_search"]
    /\ pc = "search_accommodations"

WeatherScoreAsked ==
    /\ request \in BundleSamples
    /\ state = EmptyState
    /\ pc = "weather_score"

DirectInit ==
    /\ steps = 0
    /\ trace = <<>>
    /\ decisions = <<>>
    /\ result = None
    /\ \/ FeedbackGiven
       \/ DailyScoreAsked
       \/ WeatherScoreAsked
       \/ ExtendedForecastAsked
       \/ ViabilityScoreAsked
       \/ QualityAsked
       \/ AlternativesAsked
       \/ WeatherForecastAsked
       \/ ItineraryAsked
       \/ LodgingAsked

HandleFeedback == Step("handle_feedback", handle_feedback(state))

\* the value a direct call returns
Return(value) ==
    /\ result' = Some(value)
    /\ pc' = "returned"
    /\ UNCHANGED <<request, state, steps, trace, decisions>>

DailyScoreCall ==
    /\ pc = "daily_score"
    /\ Return(calculate_daily_suitability_score(
                  request.temperature, request.description, request.wind_speed, 0))

\* the three consumers of the weather score, called on the same bundle
WeatherScoreCall ==
    /\ pc = "weather_score"
    /\ Return([viability |-> check_weather_viability(Some(request)),
               consistent |-> get_consistent_weather_score(request),
               display |-> format_itinerary_display(
                   [itinerary |-> Some(Text(600, {"Day 1"})),
                    weather_data |-> Some(request)])])

ExtendedForecastCall ==
    /\ pc = "extended_forecast"
    /\ Return(get_extended_weather_forecast(
                  request.city, request.start_date, request.end_date, request.api))

ViabilityScoreCall ==
    /\ pc = "viability_score"
    /\ Return(calculate_viability_score(request.current_weather, request.forecast))

QualityCall ==
    /\ pc = "itinerary_quality"
    /\ Return(calculate_itinerary_quality(request.itinerary, state))

AlternativesCall ==
    /\ pc = "alternatives"
    /\ Return(provide_alternatives(state, request.llm, request.fault))

WeatherForecastCall ==
    /\ pc = "weather_forecast"
    /\ Return(get_weather_forecast(request.city, request.api))

\* the node generate_itinerary and the routing function the graph evaluates
\* on the merged state
ItineraryCall ==
    /\ pc = "itinerary"
    /\ LET merged == Merge(state, generate_itinerary(state, request.llm, request.fault))
       IN Return([state |-> merged, key |-> decide_after_itinerary(merged)])

DirectNext ==
    \/ HandleFeedback
    \/ GenerateItinerary
    \/ SearchAccommodations
    \/ DailyScoreCall
    \/ WeatherScoreCall
    \/ ExtendedForecastCall
    \/ ViabilityScoreCall
    \/ QualityCall
    \/ AlternativesCall
    \/ WeatherForecastCall
    \/ ItineraryCall

DirectSpec == DirectInit /\ [][DirectNext]_vars

(***************************************************************************)
(* Properties                                                              *)
(***************************************************************************)
Last(q) == q[Len(q)]
Occurs(node) == \E i \in 1..Len(trace) : trace[i] = node
\* the node `node` executes in this step
Executes(node) == pc = node /\ steps' = steps + 1
QualityOf(s) == IF IsSome(s.itinerary_quality_score) THEN Get(s.itinerary_quality_score) ELSE 0

RequestComplete ==
    /\ request.mapping
    /\ request.destination # ""
    /\ request.travel_dates # <<>>
    /\ request.duration # 0
    /\ request.budget # 0

\* C1: a request with destination, travel_dates, duration and budget all
\* truthy leads, whatever the external calls answer, to a run that executes
\* finalize_recommendation last and stays at the terminal node.
C1_CompleteRequestTerminates ==
    (pc = "call" /\ RequestComplete)
        ~> [](pc = "END" /\ Last(trace) = "finalize_recommendation")

\* a complete request whose weather fetch failed has reached the terminal
\* node through GenerateItinerary and ProvideAlternatives
C1_Witness ==
    /\ pc = "END"
    /\ RequestComplete
    /\ IsSome(state.weather_data) /\ IsSome(Get(state.weather_data).error)
    /\ Occurs("generate_itinerary")
    /\ Occurs("provide_alternatives")

HappyPathNodes == {"gather_travel_data", "analyze_weather", "search_accommodations",
                   "search_flights", "generate_itinerary"}

C3_TerminalOnlyAfterFinalize ==
    pc = "END" =>
        /\ Last(trace) = "finalize_recommendation"
        /\ (IsSome(state.error_message)
              \/ (IsSome(state.itinerary_quality_score)
                    /\ Get(state.itinerary_quality_score) < 70))
           => (Len(trace) >= 2 /\ trace[Len(trace) - 1] = "provide_alternatives")

\* a run ended whose itinerary was generated without error and scored
\* below 70
C3_Witness ==
    /\ pc = "END"
    /\ ~IsSome(state.error_message)
    /\ IsSome(state.itinerary_quality_score)
    /\ Get(state.itinerary_quality_score) < 70
    /\ Get(state.itinerary_quality_score) > 0

\* C4: a run that executed ProvideAlternatives terminates in a state with a
\* non-empty alternative_suggestions or the apology text in
\* final_recommendation, whatever the text generator answered.
C4_FailureEndsDisplayable ==
    (pc = "END" /\ Occurs("provide_alternatives")) =>
        \/ state.alternative_suggestions # <<>>
        \/ ( /\ IsSome(state.final_recommendation)
             /\ Get(state.final_recommendation).text = ApologyText )

\* C5: plan_trip never raises to its caller; an exception during plan_trip
\* becomes a returned dict with error_message set, itinerary null and a
\* final_recommendation.
C5_PlanTripNeverRaises ==
    /\ pc # "raised"
    /\ pc = "caught" =>
          /\ IsSome(result)
          /\ IsSome(Get(result).error_message)
          /\ ~IsSome(Get(result).itinerary)
          /\ IsSome(Get(result).final_recommendation)

IncompleteCount == Cardinality({i \in 1..Len(decisions) :
                        trace[i] = "collect_user_input" /\ decisions[i] = "incomplete"})

\* C6: the incomplete -> CollectInput edge is taken at most max_iterations
\* times in a run.
C6_SelfLoopBounded == IncompleteCount <= MAX_ITERATIONS

\* C7: CollectInput and its routing, from a state without error_message and
\* with empty missing_information, give "complete" (GatherData next) exactly
\* when the four required fields are truthy, else "incomplete" (CollectInput
\* next) with missing_information holding exactly the falsy fields; with
\* error_message set they give "error" (ProvideAlternatives next).
C7_CollectInputRouting ==
    [][ Executes("collect_user_input") =>
          LET key == Last(decisions')
              falsy == (IF state.destination = "" THEN {"destination"} ELSE {})
                       \cup (IF state.travel_dates = <<>> THEN {"travel_dates"} ELSE {})
                       \cup (IF state.duration = 0 THEN {"duration"} ELSE {})
                       \cup (IF state.budget = 0 THEN {"budget"} ELSE {})
              missing == state'.missing_information
          IN /\ IsSome(state.error_message)
                  => (key = "error" /\ pc' = "provide_alternatives")
             /\ (~IsSome(state.error_message) /\ state.missing_information = <<>>)
                  => IF falsy = {}
                     THEN key = "complete" /\ pc' = "gather_travel_data"
                     ELSE /\ key = "incomplete"
                          /\ pc' = "collect_user_input"
                          /\ {missing[i] : i \in 1..Len(missing)} = falsy
                          /\ Len(missing) = Cardinality(falsy)
      ]_vars

\* CollectInput ran once on a request lacking duration and budget
C7_Witness ==
    /\ trace = <<"collect_user_input">>
    /\ decisions = <<"incomplete">>
    /\ request.missing_information = None
    /\ request.error_message = None
    /\ state.missing_information = <<"duration", "budget">>

\* C8: after GatherData the next node is ProvideAlternatives if
\* error_message is set, else AnalyzeWeather if weather_data is present
\* without an error marker, else SearchFlights.
C8_GatherDataRouting ==
    [][ Executes("gather_travel_data") =>
          pc' = IF IsSome(state'.error_message) THEN "provide_alternatives"
                ELSE IF IsSome(state'.weather_data)
                        /\ ~IsSome(Get(state'.weather_data).error)
                THEN "analyze_weather"
                ELSE "search_flights"
      ]_vars

\* GatherData stored a bundle with an error marker and SearchFlights is next
C8_Witness ==
    /\ trace # <<>>
    /\ Last(trace) = "gather_travel_data"
    /\ pc = "search_flights"
    /\ IsSome(state.weather_data)
    /\ IsSome(Get(state.weather_data).error)
    /\ ~IsSome(state.error_message)

\* C9: after AnalyzeWeather the next node is SearchLodging exactly when the
\* verdict is true (score >= 40), ProvideAlternatives exactly when the
\* verdict is false and the score is below 30, SearchFlights exactly when
\* the verdict is false and 30 <= score < 40.
C9_AnalyzeWeatherRouting ==
    [][ Executes("analyze_weather") =>
          LET v == Get(state'.weather_viability) IN
          /\ v.viable <=> ScoreGE(v.score, 40)
          /\ pc' = "search_accommodations" <=> v.viable
          /\ pc' = "provide_alternatives" <=> (~v.viable /\ ScoreLT(v.score, 30))
          /\ pc' = "search_flights"
                <=> (~v.viable /\ ScoreGE(v.score, 30) /\ ScoreLT(v.score, 40))
      ]_vars

\* AnalyzeWeather ran on a score in [30, 40) and SearchFlights is next
C9_Witness ==
    /\ trace # <<>>
    /\ Last(trace) = "analyze_weather"
    /\ pc = "search_flights"
    /\ ScoreGE(Get(state.weather_viability).score, 30)
    /\ ScoreLT(Get(state.weather_viability).score, 40)

\* C10: Finalize follows GenerateItinerary exactly when error_message is not
\* set and the quality score is at least 70; otherwise ProvideAlternatives
\* follows.
C10_GenerateItineraryRouting ==
    [][ Executes("generate_itinerary") =>
          IF ~IsSome(state'.error_message) /\ QualityOf(state') >= 70
          THEN pc' = "finalize_recommendation"
          ELSE pc' = "provide_alternatives"
      ]_vars

\* GenerateItinerary produced an itinerary scored 70 and Finalize is next
C10_Witness ==
    /\ trace # <<>>
    /\ Last(trace) = "generate_itinerary"
    /\ pc = "finalize_recommendation"
    /\ ~IsSome(state.error_message)
    /\ QualityOf(state) = 70

\* C11: after HandleFeedback, feedback containing weather, rain or storm
\* routes to AnalyzeWeather; otherwise feedback containing hotel,
\* accommodation, stay or flight routes to GatherData; otherwise the run
\* goes to GenerateItinerary.
C11_FeedbackRouting ==
    [][ Executes("handle_feedback") =>
          LET feedback == Feedback(state) IN
          pc' = IF AnyWordIn(feedback, {W_weather, W_rain, W_storm})
                THEN "analyze_weather"
                ELSE IF AnyWordIn(feedback, {W_hotel, W_accommodation, W_stay, W_flight})
                THEN "gather_travel_data"
                ELSE "generate_itinerary"
      ]_vars

\* the score the claims call canonical: the trip score of the extended
\* analysis when there is one, else the single-point score
CanonicalScore(bundle) ==
    IF IsSome(bundle.extended_analysis)
    THEN Some(Get(bundle.extended_analysis).overall_trip_score)
    ELSE bundle.viability_score

\* C12: on every weather bundle check_weather_viability,
\* get_consistent_weather_score and format_itinerary_display select the
\* same score: the trip score of the extended analysis when there is one,
\* the single-point viability_score only when there is none (an error
\* bundle carries no score: the first two report 0, the display none).
C12_ConsumersAgree ==
    pc = "returned" /\ "extended_analysis" \in DOMAIN request =>
        LET r == Get(result) IN
        /\ r.viability.score = r.consistent.score
        /\ ~IsSome(request.error) =>
              /\ r.display.display_score = Some(r.consistent.score)
              /\ IsSome(CanonicalScore(request)) =>
                    r.consistent.score = Get(CanonicalScore(request))

\* the consumers ran on a bundle whose extended analysis gives a trip score
\* other than the single-point score, and selected the trip score
C12_Witness ==
    /\ pc = "returned"
    /\ "extended_analysis" \in DOMAIN request
    /\ ~IsSome(request.error)
    /\ IsSome(request.extended_analysis)
    /\ request.viability_score = Some(IntScore(80))
    /\ Get(request.extended_analysis).overall_trip_score # IntScore(80)
    /\ Get(result).viability.score = Get(request.extended_analysis).overall_trip_score
    /\ Get(result).display.display_score = Some(Get(result).viability.score)

\* C13: in every state reached after AnalyzeWeather the score appended to
\* weather_analysis ("Weather Viability Score: N/100") equals the score
\* held in weather_viability.
C13_AppendedScoreMatches ==
    IsSome(state.weather_analysis) /\ Get(state.weather_analysis).appended # <<>> =>
        ScoreEq(Last(Get(state.weather_analysis).appended), ViabilityScore(state))

HistoryHas(text) ==
    \E i \in 1..Len(state.conversation_history) :
        state.conversation_history[i].content = text

\* C14: a run of a complete request in which AnalyzeWeather found the
\* verdict true and GenerateItinerary stored an itinerary of at least 500
\* characters with a day/time marker executes CollectInput, GatherData,
\* AnalyzeWeather, SearchLodging, SearchFlights, GenerateItinerary and
\* Finalize in that order and nothing else, and ends with quality at least
\* 70 and no error_message.
C14_HappyPath ==
    ( /\ pc = "END"
      /\ RequestComplete
      /\ ~IsSome(request.error_message)
      /\ Viable(state)
      /\ HistoryHas("Weather conditions favorable")
      /\ HistoryHas("Itinerary generated successfully")
      /\ Get(state.itinerary).length >= 500
      /\ Get(state.itinerary).has \cap {"Day 1", "Day 2", "Morning", "Afternoon"} # {} )
    => /\ trace = << "collect_user_input", "gather_travel_data", "analyze_weather",
                     "search_accommodations", "search_flights", "generate_itinerary",
                     "finalize_recommendation" >>
       /\ QualityOf(state) >= 70
       /\ ~IsSome(state.error_message)

\* the run ended on the happy path with an itinerary of exactly 500
\* characters and a marker, scored 70
C14_Witness ==
    /\ pc = "END"
    /\ RequestComplete
    /\ Viable(state)
    /\ IsSome(state.itinerary)
    /\ Get(state.itinerary) = Text(500, {"Day 1"})
    /\ QualityOf(state) = 70
    /\ ~Occurs("provide_alternatives")
    /\ Last(trace) = "finalize_recommendation"

\* C15: a run whose weather bundle is error-free with a trip score below 30
\* goes AnalyzeWeather, ProvideAlternatives, Finalize without executing
\* GenerateItinerary and ends with a non-empty alternative_suggestions and
\* a final_recommendation.
C15_LowScoreEndsWithAlternatives ==
    ( /\ pc = "END"
      /\ Occurs("analyze_weather")
      /\ ~IsSome(Get(state.weather_data).error)
      /\ ScoreLT(ViabilityScore(state), 30) )
    => /\ ~Occurs("generate_itinerary")
       /\ SubSeq(trace, Len(trace) - 2, Len(trace)) =
              << "analyze_weather", "provide_alternatives", "finalize_recommendation" >>
       /\ state.alternative_suggestions # <<>>
       /\ IsSome(state.final_recommendation)

\* the weather call of GatherData failed
WeatherFailed(ext) == ~ext.api.geo_ok \/ ext.api.fault \/ ~IsSome(ext.api.current)

\* C16: GatherData sets error_message only if the destination is missing or
\* every sub-call (weather, lodging, attractions, flights) fails; when only
\* the weather fetch fails the lodging, attraction and flight results are
\* stored.
C16_GatherFailsOnlyWhenAllFail ==
    [][ \A ext \in ExternalOutcomes :
          LET update == gather_travel_data(state, ext) IN
          Executes("gather_travel_data") /\ state' = Merge(state, update) =>
              /\ "error_message" \in DOMAIN update =>
                    \/ state.destination = ""
                    \/ /\ WeatherFailed(ext)
                       /\ ext.hotel_hits = 0
                       /\ ext.attraction_hits = 0
                       /\ ext.flight_hits = 0
              /\ WeatherFailed(ext) /\ ext.fault = "none" =>
                    /\ state'.hotel_options # <<>>
                    /\ state'.flight_options # <<>>
      ]_vars

RoutingNodes == {"collect_user_input", "gather_travel_data", "analyze_weather",
                 "generate_itinerary", "finalize_recommendation", "handle_feedback"}

\* the states that differ from s in the bookkeeping fields only
Relabelled(s) ==
    { [s EXCEPT !.current_step = c, !.retry_count = r,
                !.current_iteration = i, !.conversation_history = h] :
          c \in {"", "data_collection", "error_handling"},
          r \in {0, 1}, i \in {0, 1},
          h \in {<<>>, <<Msg("Recommendation finalized", <<>>)>>} }

\* C17: every routing function gives the same decision key on two states
\* that agree on every field except current_step, retry_count,
\* current_iteration and conversation_history.
C17_RoutingIgnoresBookkeeping ==
    \A node \in RoutingNodes : \A t \in Relabelled(state) :
        Decide(node, t) = Decide(node, state)

\* CollectInput has just decided "complete" on a state tagged
\* data_collection, and decides the same with another tag
C17_Witness ==
    /\ pc = "gather_travel_data"
    /\ Last(decisions) = "complete"
    /\ state.current_step = "data_collection"
    /\ Decide("collect_user_input", [state EXCEPT !.current_step = "error_handling"]) = "complete"

\* C18: no node changes a request fact: once plan_trip has built the state,
\* destination, travel_dates, duration, budget, preferences and travel_type
\* equal the values of the request.
C18_RequestFactsKept ==
    pc \notin {"call", "raised"} =>
        /\ state.destination = request.destination
        /\ state.travel_dates = request.travel_dates
        /\ state.duration = request.duration
        /\ state.budget = request.budget
        /\ state.preferences = request.preferences
        /\ state.travel_type = request.travel_type

\* a run over all seven happy-path nodes ended with the request's facts
C18_Witness ==
    /\ pc = "END"
    /\ Occurs("search_flights")
    /\ Occurs("generate_itinerary")
    /\ state.destination = "Goa"
    /\ state.budget = 1500
    /\ state.travel_dates = request.travel_dates

\* C19: the daily suitability score of every temperature, description and
\* wind speed lies between 0 and 100, and the score of 25 degrees,
\* "clear sky", wind 5 is 100.
C19_DailyScoreClamped ==
    pc = "returned" /\ "temperature" \in DOMAIN request =>
        /\ Get(result) \in 0..100
        /\ (request = Conditions(25, S_clear_sky, 5) => Get(result) = 100)

\* the score of 25 degrees, "clear sky", wind 5 was computed (125 before
\* the upper clamp)
C19_Witness ==
    /\ pc = "returned"
    /\ request = Conditions(25, S_clear_sky, 5)
    /\ Get(result) = 100

\* C20 as stated: the daily suitability score of -5 degrees,
\* "thunderstorm", wind 10 is 0.
C20_ThunderstormScoreZero ==
    pc = "returned" /\ request = Conditions(-5, S_thunderstorm, 10) => Get(result) = 0

\* C20 as the code computes it: "thunderstorm" contains "storm", the first
\* keyword family, so the score of -5 degrees, "thunderstorm", wind 10 is
\* 100 - 40 - 50 = 10.
C20_ThunderstormScoreTen ==
    pc = "returned" /\ request = Conditions(-5, S_thunderstorm, 10) => Get(result) = 10

\* the score of -5 degrees, "thunderstorm", wind 10 was computed
C20_Witness ==
    /\ pc = "returned"
    /\ request = Conditions(-5, S_thunderstorm, 10)
    /\ result = Some(10)

\* the temperature table as the claim C21 states it
ClaimedTempAdjustment(t) ==
    IF t <= 0 \/ t >= 40 THEN -40
    ELSE IF t < 5 \/ t > 35 THEN -25
    ELSE IF t < 10 \/ t > 30 THEN -15
    ELSE IF 18 <= t /\ t <= 28 THEN 10
    ELSE 0

\* C21: the temperature adjustment of the daily score is -40 for every
\* temperature <= 0 or >= 40 (0 and 40 included), -25 in the bands 0-5 and
\* 35-40, -15 in the bands 5-10 and 30-35, +10 from 18 to 28 and 0
\* elsewhere (read off the score of a "Snow" day without wind, 70 plus the
\* adjustment).
C21_TemperatureTable ==
    ( /\ pc = "returned"
      /\ "temperature" \in DOMAIN request
      /\ request.description = S_Snow
      /\ request.wind_speed = 0 )
    => Get(result) = 70 + ClaimedTempAdjustment(request.temperature)

\* the keyword families of the claim C22, in priority order
ConditionFamilies ==
    << [words |-> {W_storm, W_hurricane, W_tornado}, adjustment |-> -50],
       [words |-> {W_heavy_rain, W_thunderstorm}, adjustment |-> -40],
       [words |-> {W_rain, W_shower}, adjustment |-> -20],
       [words |-> {W_snow, W_sleet}, adjustment |-> -30],
       [words |-> {W_clear, W_sunny}, adjustment |-> 15],
       [words |-> {W_cloud}, adjustment |-> 5] >>

FamilyMatches(i, description) == AnyWordIn(Lower(description), ConditionFamilies[i].words)

FirstFamilyAdjustment(description) ==
    IF \E i \in 1..Len(ConditionFamilies) : FamilyMatches(i, description)
    THEN LET first == CHOOSE i \in 1..Len(ConditionFamilies) :
                          /\ FamilyMatches(i, description)
                          /\ \A j \in 1..(i - 1) : ~FamilyMatches(j, description)
         IN ConditionFamilies[first].adjustment
    ELSE 0

\* C22: the condition adjustment of the daily score is that of the first
\* keyword family matching the lower-cased description, in the order
\* storm/hurricane/tornado, heavy rain/thunderstorm, rain/shower,
\* snow/sleet, clear/sunny, cloud, and 0 when none matches (read off the
\* score of a 7 degree day without wind, 85 plus the adjustment).
C22_FirstFamilyWins ==
    ( /\ pc = "returned"
      /\ "temperature" \in DOMAIN request
      /\ request.temperature = 7
      /\ request.wind_speed = 0 )
    => Get(result) = 85 + FirstFamilyAdjustment(request.description)

\* "snow showers", which matches the rain/shower and the snow/sleet
\* families, was scored with the adjustment of rain/shower
C22_Witness ==
    /\ pc = "returned"
    /\ request = Conditions(7, S_snow_showers, 0)
    /\ Get(result) = 65

\* the per-day suitability scores of an extended forecast
DailyScoresOf(bundle) ==
    [d \in 1..Len(Get(bundle.extended_analysis).daily_forecasts) |->
        Get(bundle.extended_analysis).daily_forecasts[d].suitability_score]

\* C23: the trip-level score of the extended forecast is the arithmetic mean
\* of the per-day suitability scores whenever there is at least one day
\* (daily scores 80, 60, 40 give 60) and then lies in [0,100]; when the date
\* range yields no day it is the single-point viability score.
C23_TripScoreIsMean ==
    ( /\ pc = "returned"
      /\ "start_date" \in DOMAIN request
      /\ ~IsSome(Get(result).error) )
    => LET overall == Get(Get(result).extended_analysis).overall_trip_score
           scores == DailyScoresOf(Get(result))
       IN /\ Len(scores) = Max(request.end_date - request.start_date + 1, 0)
          /\ scores # <<>> =>
                /\ overall.num * Len(scores) = SumSeq(scores) * overall.den
                /\ ScoreGE(overall, 0)
                /\ overall.num <= 100 * overall.den
          /\ scores = <<80, 60, 40>> => ScoreEq(overall, IntScore(60))
          /\ scores = <<>> =>
                ScoreEq(overall, IntScore(calculate_viability_score(
                                     request.api.current, request.api.forecast).score))

\* three days scoring 80, 60 and 40 gave the trip score 60
C23_Witness ==
    /\ pc = "returned"
    /\ "start_date" \in DOMAIN request
    /\ ~IsSome(Get(result).error)
    /\ DailyScoresOf(Get(result)) = <<80, 60, 40>>
    /\ ScoreEq(Get(Get(result).extended_analysis).overall_trip_score, IntScore(60))

\* a date range without days fell back to the single-point score
C23_FallbackReached ==
    /\ pc = "returned"
    /\ "start_date" \in DOMAIN request
    /\ ~IsSome(Get(result).error)
    /\ DailyScoresOf(Get(result)) = <<>>

\* C24: for every error-free weather bundle with canonical score s,
\* check_weather_viability gives the verdict s >= 40, the poor-conditions
\* warning exactly when s < 30, the moderate-conditions warning exactly when
\* 30 <= s < 50 and no warning when s >= 50 (25: not viable, poor; 45:
\* viable, moderate; 85: viable, no warning).
C24_VerdictAndWarnings ==
    ( /\ pc = "returned"
      /\ "extended_analysis" \in DOMAIN request
      /\ ~IsSome(request.error)
      /\ IsSome(CanonicalScore(request)) )
    => LET s == Get(CanonicalScore(request))
           v == Get(result).viability
           poor == \E i \in DOMAIN v.warnings :
                       v.warnings[i] = "Poor weather conditions expected"
           moderate == \E i \in DOMAIN v.warnings :
                           v.warnings[i] = "Moderate weather conditions"
       IN /\ v.viable = (s.num >= 40 * s.den)
          /\ poor = (s.num < 30 * s.den)
          /\ moderate = (s.num >= 30 * s.den /\ s.num < 50 * s.den)
          /\ s.num >= 50 * s.den => v.warnings = <<>>
          /\ s = IntScore(25) => ~v.viable /\ poor
          /\ s = IntScore(45) => v.viable /\ moderate
          /\ s = IntScore(85) => v.viable /\ v.warnings = <<>>

\* a bundle with the score 45 was judged viable with the moderate warning
C24_Witness ==
    /\ pc = "returned"
    /\ request \in ScoredBundles
    /\ request.viability_score = Some(IntScore(45))
    /\ Get(result).viability.viable
    /\ Get(result).viability.warnings = <<"Moderate weather conditions">>

\* C25: for every weather bundle that carries an error marker,
\* check_weather_viability gives the score 0 and the verdict false with the
\* reason "Weather data unavailable", whatever else the bundle holds.
C25_ErrorBundleNotViable ==
    ( /\ pc = "returned"
      /\ "extended_analysis" \in DOMAIN request
      /\ IsSome(request.error) )
    => LET v == Get(result).viability
       IN /\ v.score = IntScore(0)
          /\ ~v.viable
          /\ v.reason = <<"Weather data unavailable">>

\* a bundle with an error marker and an extended analysis of a good trip
\* score was judged not viable with the score 0
C25_Witness ==
    /\ pc = "returned"
    /\ request \in MarkedBundles
    /\ IsSome(request.extended_analysis)
    /\ ScoreGE(Get(request.extended_analysis).overall_trip_score, 40)
    /\ Get(result).viability.score = IntScore(0)
    /\ ~Get(result).viability.viable

\* C26: for every current-conditions input whose temperature lies outside
\* the band from 15 to 30 degrees, the single-point viability score equals
\* the daily suitability score of the same temperature, description and
\* wind speed.
C26_SameTables ==
    ( /\ pc = "returned"
      /\ DOMAIN request = {"current_weather", "forecast"}
      /\ \/ Get(request.current_weather).temperature < 15
         \/ Get(request.current_weather).temperature > 30 )
    => LET c == Get(request.current_weather)
       IN Get(result).score = calculate_daily_suitability_score(
                                  c.temperature, c.description, c.wind_speed, 0)

\* 1 for a true condition, 0 for a false one
Indicator(b) == IF b THEN 1 ELSE 0

\* C27: the itinerary quality score is 0 for the empty text and otherwise
\* 50 + 20 [length > 500] + 20 [the text has a day or time-of-day marker]
\* + 10 [the text has all three content keywords], so it lies in
\* {0} \cup 50..100; a 600-character text with "Day 1" and the three
\* keywords scores 100.
C27_QualityFormula ==
    pc = "returned" /\ DOMAIN request = {"itinerary"} =>
        LET text == request.itinerary
            markers == {"Day 1", "Day 2", "Morning", "Afternoon"}
            keywords == {"hotel", "activities", "restaurant"}
        IN /\ text.length = 0 => Get(result) = 0
           /\ text.length > 0 =>
                 Get(result) = 50 + 20 * Indicator(text.length > 500)
                                  + 20 * Indicator(text.has \cap markers # {})
                                  + 10 * Indicator(keywords \subseteq text.has)
           /\ Get(result) \in {0} \cup 50..100
           /\ text = Text(600, {"Day 1", "hotel", "activities", "restaurant"}) =>
                 Get(result) = 100

\* the 600-character text with "Day 1" and the three keywords scored 100
C27_Witness ==
    /\ pc = "returned"
    /\ request = [itinerary |-> Text(600, {"Day 1", "hotel", "activities", "restaurant"})]
    /\ Get(result) = 100

\* the itinerary text of the state is missing or empty
NoItineraryText(s) == ~IsSome(s.itinerary) \/ Get(s.itinerary).length = 0

\* the summary written by finalize_recommendation, when there is one
Finalized(s) ==
    IsSome(s.final_recommendation) /\ IsSome(Get(s.final_recommendation).summary)

\* C28: in every reachable state of a run a non-zero
\* itinerary_quality_score implies a non-empty itinerary text, and whenever
\* the itinerary is empty or was never generated the quality score that
\* Finalize read is 0.
C28_QualityNeedsItinerary ==
    /\ QualityOf(state) # 0 => ~NoItineraryText(state)
    /\ Finalized(state) /\ NoItineraryText(state) =>
          Get(Get(state.final_recommendation).summary).quality_score = 0

\* a run finalized without any itinerary generated, the summary's score
\* being 0
C28_Witness ==
    /\ pc = "END"
    /\ Finalized(state)
    /\ ~IsSome(state.itinerary)
    /\ Get(Get(state.final_recommendation).summary).quality_score = 0

\* a run finalized with an itinerary of a non-zero score
C28_ScoredReached ==
    /\ pc = "END"
    /\ Finalized(state)
    /\ QualityOf(state) # 0
    /\ ~NoItineraryText(state)

\* the lines of an answer that are neither blank nor headed "Alternative"
UsableLines(content) ==
    SelectSeq(content, LAMBDA line : ~IsBlank(line) /\ ~StartsWithAlternative(line))

\* C29: after ProvideAlternatives alternative_suggestions holds at most 3
\* entries when the text generator succeeds and exactly the 3 fixed-template
\* suggestions when the text generator fails (the node's own try block not
\* raising).
C29_AtMostThreeAlternatives ==
    ( /\ pc = "returned"
      /\ DOMAIN request = {"llm", "fault"}
      /\ ~request.fault )
    => LET suggestions == Get(result).alternative_suggestions
       IN /\ request.llm.ok => Len(suggestions) <= 3
          /\ ~request.llm.ok =>
                /\ Len(suggestions) = 3
                /\ suggestions[1].body =
                      "Consider visiting {destination} during different dates with better weather"
                /\ suggestions[2].body =
                      "Explore indoor activities and museums in {destination}"
                /\ suggestions[3].body =
                      "Look for nearby destinations with better weather conditions"

\* an answer of four usable lines was cut to three suggestions
C29_Witness ==
    /\ pc = "returned"
    /\ DOMAIN request = {"llm", "fault"}
    /\ request.llm.ok
    /\ Len(UsableLines(request.llm.content)) = 4
    /\ Len(Get(result).alternative_suggestions) = 3

\* the text generator failed and the three templates were stored
C29_TemplatesReached ==
    /\ pc = "returned"
    /\ DOMAIN request = {"llm", "fault"}
    /\ ~request.llm.ok /\ ~request.fault
    /\ Len(Get(result).alternative_suggestions) = 3

\* how many times the node has executed so far in the run
Count(node) == Cardinality({i \in 1..Len(trace) : trace[i] = node})

\* plan_trip has returned or raised
RunOver == pc \in {"END", "caught", "raised"}

\* the routing after Finalize answers "accepted"; no node but CollectInput
\* has executed twice and HandleFeedback has not executed
NoNodeRepeats ==
    /\ decide_after_finalization(state) = "accepted"
    /\ \A node \in Nodes \ {"collect_user_input"} : Count(node) <= 1
    /\ Count("handle_feedback") = 0
    /\ pc = "END" => Count("finalize_recommendation") = 1

\* C30: the routing after Finalize returns "accepted" for every state, so in
\* every plan_trip run Finalize executes exactly once, ProvideAlternatives
\* at most once, HandleFeedback never, and no node other than CollectInput
\* more than once.
C30_FinalizeExactlyOnce ==
    /\ NoNodeRepeats
    /\ RunOver => Count("finalize_recommendation") = 1

\* C31: after a successful extended forecast the bundle's viability_score
\* equals extended_analysis.overall_trip_score.
C31_BundleScoresAgree ==
    ( /\ pc = "returned"
      /\ "start_date" \in DOMAIN request
      /\ ~IsSome(Get(result).error) )
    => /\ IsSome(Get(result).extended_analysis)
       /\ IsSome(Get(result).viability_score)
       /\ ScoreEq(Get(Get(result).viability_score),
                  Get(Get(result).extended_analysis).overall_trip_score)

\* an extended forecast whose trip score is not the single-point score of
\* the same provider answer carries the trip score in both fields
C31_Witness ==
    /\ pc = "returned"
    /\ "start_date" \in DOMAIN request
    /\ ~IsSome(Get(result).error)
    /\ ~ScoreEq(Get(Get(result).extended_analysis).overall_trip_score,
                IntScore(calculate_viability_score(
                             request.api.current, request.api.forecast).score))
    /\ Get(result).viability_score =
          Some(Get(Get(result).extended_analysis).overall_trip_score)

\* C32: for every feedback text the next-action label that HandleFeedback
\* records in current_step equals the decision key that the routing after
\* HandleFeedback returns for the same text.
C32_LabelIsRoutingKey ==
    [][ Executes("handle_feedback") => state'.current_step = Last(decisions') ]_vars

\* C33: the viability score quoted inside the weather_analysis text that
\* get_weather_forecast produces equals the viability_score returned in the
\* same bundle.
C33_QuotedScoreIsBundleScore ==
    ( /\ pc = "returned"
      /\ DOMAIN request = {"city", "api"}
      /\ ~IsSome(Get(result).error) )
    => Get(Get(result).weather_analysis).quoted_score = Get(result).viability_score

\* C34: error_message is never cleared, a node that finds it set leaves it
\* set; so when GenerateItinerary is entered again from HandleFeedback with
\* an error_message left by an earlier step, the routing after it returns
\* "error" whatever the quality of the new itinerary.
C34_ErrorMessageSticks ==
    [][ /\ IsSome(state.error_message) => IsSome(state'.error_message)
        /\ Executes("generate_itinerary") /\ IsSome(state.error_message) =>
              Last(decisions') = "error" /\ pc' = "provide_alternatives"
      ]_vars

\* GenerateItinerary, entered from HandleFeedback with error_message set,
\* stored an itinerary of quality 100 and was routed by "error"
C34_Witness ==
    /\ trace = <<"handle_feedback", "generate_itinerary">>
    /\ IsSome(state.error_message)
    /\ QualityOf(state) = 100
    /\ Last(decisions) = "error"
    /\ pc = "provide_alternatives"

\* the position in the trace of the first execution of the node
IndexOf(node) == CHOOSE i \in 1..Len(trace) :
                     trace[i] = node /\ \A j \in 1..(i - 1) : trace[j] # node

\* GatherData has stored its data with a weather bundle carrying an error
WeatherUnavailable ==
    /\ Occurs("gather_travel_data")
    /\ IsSome(state.weather_data)
    /\ IsSome(Get(state.weather_data).error)

\* C35: when the weather bundle carries an error marker and the other data
\* is gathered, the run skips AnalyzeWeather and SearchLodging and goes
\* GatherData, SearchFlights, GenerateItinerary, although the stored
\* verdict is false with score 0; ProvideAlternatives is entered, if at
\* all, only after GenerateItinerary.
C35_UnavailableWeatherGoesOn ==
    WeatherUnavailable =>
        LET g == IndexOf("gather_travel_data") IN
        /\ ~Occurs("analyze_weather")
        /\ ~Occurs("search_accommodations")
        /\ IsSome(state.weather_viability)
        /\ ~Get(state.weather_viability).viable
        /\ Get(state.weather_viability).score = IntScore(0)
        /\ IF Len(trace) = g THEN pc = "search_flights"
           ELSE trace[g + 1] = "search_flights"
        /\ IF Len(trace) = g + 1 THEN pc = "generate_itinerary"
           ELSE Len(trace) > g + 1 => trace[g + 2] = "generate_itinerary"
        /\ Occurs("provide_alternatives") =>
              trace[IndexOf("provide_alternatives") - 1] = "generate_itinerary"

\* a run without weather data ended accepted, never entering
\* ProvideAlternatives
C35_Witness ==
    /\ pc = "END"
    /\ WeatherUnavailable
    /\ trace = << "collect_user_input", "gather_travel_data", "search_flights",
                  "generate_itinerary", "finalize_recommendation" >>
    /\ ~Get(state.weather_viability).viable

\* the verdict stored by GatherData is false with a score from 30 up to,
\* not including, 40
ConditionalWeather(s) ==
    /\ IsSome(s.weather_viability)
    /\ ~Get(s.weather_viability).viable
    /\ ScoreGE(Get(s.weather_viability).score, 30)
    /\ ScoreLT(Get(s.weather_viability).score, 40)

FixedAlternatives == << Line(0, "Consider alternative dates"),
                        Line(0, "Look for nearby destinations"),
                        Line(0, "Plan indoor activities") >>

\* C36: when the verdict is false with 30 <= score < 40, AnalyzeWeather (its
\* try block not raising) stores its three fixed alternative suggestions and
\* the step tag "alternative_planning" while the run goes on to
\* SearchFlights and GenerateItinerary, neither of which, nor Finalize,
\* touches the suggestions; a run can so end with an accepted itinerary and
\* a non-empty alternative_suggestions.
C36_ConditionalKeepsSuggestions ==
    [][ /\ ( /\ Executes("analyze_weather")
             /\ ConditionalWeather(state)
             /\ ~IsSome(state'.error_message) )
           => /\ state'.alternative_suggestions = FixedAlternatives
              /\ state'.current_step = "alternative_planning"
              /\ pc' = "search_flights"
        /\ Executes("search_flights") => pc' = "generate_itinerary"
        /\ ( \/ Executes("search_flights")
             \/ Executes("generate_itinerary")
             \/ Executes("finalize_recommendation") )
           => state'.alternative_suggestions = state.alternative_suggestions
      ]_vars

\* a run ended with an accepted itinerary (quality >= 70, no error) next to
\* the three suggestions of AnalyzeWeather
C36_Witness ==
    /\ pc = "END"
    /\ ConditionalWeather(state)
    /\ trace = << "collect_user_input", "gather_travel_data", "analyze_weather",
                  "search_flights", "generate_itinerary", "finalize_recommendation" >>
    /\ QualityOf(state) >= 70
    /\ ~IsSome(state.error_message)
    /\ state.alternative_suggestions = FixedAlternatives
    /\ state.current_step = "completed"

\* C37: absent an error_message, the routing after GenerateItinerary returns
\* "success" exactly when the itinerary is non-empty and one of the two +20
\* bonuses applies (length > 500, or a day or time-of-day marker); the +10
\* keyword bonus alone never suffices.
C37_SuccessNeedsATwentyBonus ==
    ( /\ pc = "returned"
      /\ "node" \in DOMAIN request
      /\ ~IsSome(Get(result).state.error_message) )
    => LET text == Get(Get(result).state.itinerary)
           marked == text.has \cap {"Day 1", "Day 2", "Morning", "Afternoon"} # {}
       IN /\ (Get(result).key = "success") =
                (text.length > 0 /\ (text.length > 500 \/ marked))
          /\ (text.length <= 500 /\ ~marked) => Get(result).key = "needs_improvement"

\* a 500-character itinerary with the three keywords and no marker scored 60
\* and was routed by "needs_improvement"
C37_Witness ==
    /\ pc = "returned"
    /\ "node" \in DOMAIN request
    /\ Get(result).state.itinerary =
          Some(Text(500, {"hotel", "activities", "restaurant"}))
    /\ Get(result).state.itinerary_quality_score = Some(60)
    /\ Get(result).key = "needs_improvement"

\* a 501-character itinerary without marker and keyword was routed by
\* "success"
C37_LengthAloneReached ==
    /\ pc = "returned"
    /\ "node" \in DOMAIN request
    /\ Get(result).state.itinerary = Some(Text(501, {}))
    /\ Get(result).key = "success"

\* the first n entries of the list that carry no error, in their order
RECURSIVE FirstErrorFree(_, _)
FirstErrorFree(hotels, n) ==
    IF n = 0 \/ hotels = <<>> THEN <<>>
    ELSE IF IsSome(Head(hotels).error) THEN FirstErrorFree(Tail(hotels), n)
    ELSE <<Head(hotels)>> \o FirstErrorFree(Tail(hotels), n - 1)

C38_UnfilteredReached ==
    /\ pc = "END"
    /\ Occurs("analyze_weather")
    /\ ~Occurs("search_accommodations")
    /\ Len(state.hotel_options) = 6

\* the four required fields of the state are truthy
FieldsPresent(s) ==
    s.destination # "" /\ s.travel_dates # <<>> /\ s.duration # 0 /\ s.budget # 0

\* C39: conversation_history is append-only during a run: every node
\* execution keeps the existing entries as a prefix and appends exactly one
\* entry, except an execution of CollectInput that finds all required
\* fields present, which appends none.
C39_HistoryAppendOnly ==
    [][ \A node \in Nodes :
          Executes(node) =>
              LET old == state.conversation_history
                  new == state'.conversation_history
              IN IF node = "collect_user_input" /\ FieldsPresent(state)
                 THEN new = old
                 ELSE /\ Len(new) = Len(old) + 1
                      /\ SubSeq(new, 1, Len(old)) = old
      ]_vars

\* the seven nodes of the favourable path have executed and left six
\* entries, CollectInput having added none
C39_Witness ==
    /\ pc = "END"
    /\ Len(trace) = 7
    /\ Occurs("search_accommodations")
    /\ Len(state.conversation_history) = 6
    /\ state.conversation_history[1].content = "Travel data collected successfully"

\* CollectInput has executed three times on an incomplete request and left
\* three entries
C39_IncompleteReached ==
    /\ trace = <<"collect_user_input", "collect_user_input", "collect_user_input">>
    /\ Len(state.conversation_history) = 3

====
